---- MODULE Spec2Model ----
(***************************************************************************)
(* The geoprocessing engine of the raster and vector processing tool:      *)
(* RasterProcessor (src/raster_processor.py), VectorProcessor              *)
(* (src/vector_processor.py), FileManager (src/file_manager.py) and        *)
(* FormatFactory (src/format_handlers.py) over a small filesystem.         *)
(*                                                                         *)
(* The engine is stateless: the only state is the filesystem.  A behaviour *)
(* is one processor call made on a filesystem drawn by Init; `call' holds  *)
(* the position of that call (idle, returned, raised), its arguments, its  *)
(* result and the filesystem it started from.                              *)
(*                                                                         *)
(* The data models (src/data_models.py), the validators                    *)
(* (src/validators.py), the main window with its worker thread             *)
(* (src/main_window.py) and the map viewer (src/simple_map_viewer.py)      *)
(* follow, each under a specification of its own.  `objects' holds the     *)
(* fields of the object such a specification is about (a ProjectionInfo,   *)
(* a VectorDataset, the MainWindow, the SimpleMapViewer); it is empty in   *)
(* the specifications of the engine.  There `call' is the latest call.     *)
(*                                                                         *)
(* Numbers: pixel values, interval ends and sizes are integers; scale      *)
(* factors and pixel sizes are exact rationals [n, d].  Rasters are        *)
(* integer-typed (no NaN).  The interpolated pixel values of the rasterio  *)
(* kernels are not modelled: a resampled grid holds the nearest source     *)
(* sample.                                                                 *)
(***************************************************************************)
EXTENDS Integers, Sequences, FiniteSets, TLC

VARIABLES fs, call, objects

vars == <<fs, call, objects>>

(***************************************************************************)
(* Bounds of the model.                                                    *)
(***************************************************************************)
MaxVal == 2        \* pixel values and interval ends range over 0..MaxVal
NPix == 2          \* pixels of a grid whose pixel values are enumerated
MaxRules == 2      \* rows of the reclassification table
MaxDim == 3        \* width and height of a raster whose size is enumerated
MaxScaleDen == 3   \* scale factors are n/d with 1 <= d <= MaxScaleDen
MaxScaleNum == 4   \* ... and -1 <= n <= MaxScaleNum

(***************************************************************************)
(* Program constants.                                                      *)
(***************************************************************************)
OUTPUT_NODATA == -9999
INT32_MAX == 2147483647
INT32_MIN == (-INT32_MAX) - 1

(***************************************************************************)
(* exceptions.py: the error kinds and their base classes.                  *)
(***************************************************************************)
GISErrorKinds ==
    {"GISProcessingError", "ProjectionError", "DataFormatError",
     "GeometryError", "FileAccessError"}

\* The classes an exception of class `kind' is an instance of.
Bases(kind) ==
    IF kind = "GISProcessingError" THEN {"GISProcessingError", "Exception"}
    ELSE IF kind \in GISErrorKinds THEN {kind, "GISProcessingError", "Exception"}
    ELSE {kind, "Exception"}

IsInstance(kind, cls) == cls \in Bases(kind)

(***************************************************************************)
(* The filesystem: a file is absent, a raster, or something rasterio       *)
(* cannot open (a partially written file, a file of another kind).         *)
(***************************************************************************)
Paths == {"a", "b", "out"}

NoFile == [kind |-> "none"]
PartialFile == [kind |-> "partial"]
OtherFile == [kind |-> "other"]

Exists(f, path) == f[path].kind # "none"

\* A rational n/d, d > 0.
Rat(n, d) == [n |-> n, d |-> d]
RatEq(x, y) == x.n * y.d = y.n * x.d
RatMul(x, y) == Rat(x.n * y.n, x.d * y.d)

\* Affine(a, 0, c, 0, e, f): pixel width a and height e, origin (c, f).
Transform(a, e, c, f) == [a |-> a, e |-> e, c |-> c, f |-> f]

UnitTransform == Transform(Rat(1, 1), Rat(-1, 1), 0, 0)

\* A raster file: its header (src.meta, src.crs, src.nodata) and its bands,
\* each a row-major sequence of width * height pixel values.  nodata is the
\* set holding the declared nodata value, empty when none is declared.
Raster(crs, width, height, dtype, nodata, transform, data) ==
    [kind |-> "raster", crs |-> crs, width |-> width, height |-> height,
     count |-> Len(data), dtype |-> dtype, nodata |-> nodata,
     transform |-> transform, data |-> data]

IsRaster(file) == file.kind = "raster"

CRSs == {"EPSG:4326", "EPSG:3857"}

\* The target CRS strings of the calls: the known ones and an unknown one.
TargetCRSs == CRSs \cup {"EPSG:0"}

Idle == [status |-> "idle"]

\* The call returned True.
Returned(op, args, pre, info) ==
    [status |-> "returned", op |-> op, args |-> args, value |-> TRUE,
     pre |-> pre, info |-> info]

\* The call raised an exception of class `kind' caused by one of class `cause'.
Raised(op, args, pre, kind, cause, info) ==
    [status |-> "raised", op |-> op, args |-> args, kind |-> kind,
     cause |-> cause, pre |-> pre, info |-> info]

(***************************************************************************)
(* What the environment does to a write: rasterio.open(path, 'w') fails    *)
(* and creates nothing, or it creates the file and dst.write fails, or the *)
(* write completes.                                                        *)
(***************************************************************************)
WriteOutcomes == {"ok", "open_fails", "write_fails"}

(***************************************************************************)
(* RasterPanel.get_reclass_rules and the rule dictionary.                  *)
(*                                                                         *)
(* A Python int is hi * 2^64 + lo: hi # 0 stands for an integer beyond the *)
(* C long range, which numpy cannot store in an int32 array.               *)
(***************************************************************************)
PyInt(hi, lo) == [hi |-> hi, lo |-> lo]

FitsInt32(n) == n.hi = 0 /\ n.lo >= INT32_MIN /\ n.lo <= INT32_MAX

\* A table row whose three cells parse; `ok' is FALSE for a row with a cell
\* that float() or int() rejects.
Row(ok, min_val, max_val, new_val) ==
    [ok |-> ok, min_val |-> min_val, max_val |-> max_val, new_val |-> new_val]

Key(rule) == <<rule.min_val, rule.max_val>>

\* rules[(min_val, max_val)] = new_val: a key already present keeps its place
\* in the iteration order and takes the new value.
DictSet(rules, row) ==
    IF \E i \in 1..Len(rules) : Key(rules[i]) = Key(row)
    THEN [i \in 1..Len(rules) |->
            IF Key(rules[i]) = Key(row)
            THEN [rules[i] EXCEPT !.new_val = row.new_val]
            ELSE rules[i]]
    ELSE Append(rules,
                [min_val |-> row.min_val, max_val |-> row.max_val,
                 new_val |-> row.new_val])

RECURSIVE DictFromRows(_, _)
DictFromRows(rows, rules) ==
    IF rows = <<>> THEN rules
    ELSE DictFromRows(Tail(rows),
                      IF Head(rows).ok THEN DictSet(rules, Head(rows)) ELSE rules)

get_reclass_rules(rows) == DictFromRows(rows, <<>>)

(***************************************************************************)
(* RasterProcessor.reclassify_raster                                       *)
(***************************************************************************)
InIntervalNoMax(v, rule) == v >= rule.min_val

\* (data >= min_val) & (data <= max_val)
InInterval(v, rule) == v >= rule.min_val /\ v <= rule.max_val

RuleMaskWithNodata(src, rule) ==
    {p \in 1..Len(src.data[1]) : InInterval(src.data[1][p], rule)}

\* The mask of one rule: the pixels of band 1 in the interval that differ
\* from the source nodata.
RuleMask(src, rule) ==
    {p \in 1..Len(src.data[1]) :
        /\ InInterval(src.data[1][p], rule)
        /\ (src.nodata = {} \/ src.data[1][p] \notin src.nodata)}

\* One pass of the loop over the rules.  The assignment of a value that
\* does not fit int32 raises; the loop prints the error and continues.
ApplyRule(src, rule, acc) ==
    LET mask == RuleMask(src, rule)
        pixel_count == Cardinality(mask)
    IN  IF pixel_count > 0
        THEN IF FitsInt32(rule.new_val)
             THEN [acc EXCEPT
                     !.reclassified =
                        [p \in DOMAIN @ |->
                            IF p \in mask THEN rule.new_val.lo ELSE @[p]],
                     !.pixels_classified = @ + pixel_count]
             ELSE [acc EXCEPT !.swallowed = @ + 1]
        ELSE acc

RECURSIVE ApplyRules(_, _, _)
ApplyRules(src, rules, acc) ==
    IF rules = <<>> THEN acc
    ELSE ApplyRules(src, Tail(rules), ApplyRule(src, Head(rules), acc))

\* classified_mask: the union of the rule masks.
ClassifiedMask(src, rules) ==
    UNION {RuleMask(src, rules[i]) : i \in 1..Len(rules)}

\* The nodata pass and the unclassified pass after the loop.
Finalize(src, rules, reclassified) ==
    LET data == src.data[1]
        afterNodata ==
            [p \in DOMAIN reclassified |->
                IF src.nodata # {} /\ data[p] \in src.nodata
                THEN OUTPUT_NODATA ELSE reclassified[p]]
        classified_mask == ClassifiedMask(src, rules)
        unclassified_pixels ==
            {p \in DOMAIN reclassified :
                /\ p \notin classified_mask
                /\ (src.nodata = {} \/ data[p] \notin src.nodata)}
    IN  [p \in DOMAIN reclassified |->
            IF p \in unclassified_pixels THEN OUTPUT_NODATA ELSE afterNodata[p]]

\* The loop over the rules from np.full_like(data, -9999).
Classify(src, rules) ==
    ApplyRules(src, rules,
               [reclassified |-> [p \in 1..Len(src.data[1]) |-> OUTPUT_NODATA],
                pixels_classified |-> 0,
                swallowed |-> 0])

\* The raster written: the source header with dtype int32, one band and the
\* output nodata.
ReclassOutput(src, rules, reclassified) ==
    Raster(src.crs, src.width, src.height, "int32", {OUTPUT_NODATA},
           src.transform, <<Finalize(src, rules, reclassified)>>)

CleanUpKeepsFile(f, output_path, unlink_ok) == f

\* The outer handler: remove what is at output_path, when the unlink works.
CleanUp(f, output_path, unlink_ok) ==
    IF Exists(f, output_path) /\ unlink_ok
    THEN [f EXCEPT ![output_path] = NoFile]
    ELSE f

\* The write of a raster under the environment's outcome io.
WriteRaster(f, output_path, raster, io) ==
    IF io = "open_fails" THEN f
    ELSE IF io = "write_fails" THEN [f EXCEPT ![output_path] = PartialFile]
    ELSE [f EXCEPT ![output_path] = raster]

\* The whole call on filesystem f: the filesystem it leaves, how it ends
\* (cause = "" when it returns True) and the rule errors it swallowed.
ReclassifyResult(f, input_path, output_path, rules, io, unlink_ok) ==
    LET src == f[input_path]
        acc == Classify(src, rules)
        early == IF ~Exists(f, input_path) THEN "FileNotFoundError"
                 ELSE IF rules = <<>> THEN "ValueError"
                 ELSE IF ~IsRaster(src) THEN "RasterioIOError"
                 ELSE IF acc.pixels_classified = 0 THEN "ValueError"
                 ELSE ""
        swallowed == IF Exists(f, input_path) /\ rules # <<>> /\ IsRaster(src)
                     THEN acc.swallowed ELSE 0
    IN  IF early # ""
        THEN [fs |-> CleanUp(f, output_path, unlink_ok), cause |-> early,
              wrote |-> FALSE, swallowed |-> swallowed]
        ELSE IF io # "ok"
        THEN [fs |-> CleanUp(WriteRaster(f, output_path, PartialFile, io),
                             output_path, unlink_ok),
              cause |-> "GISProcessingError", wrote |-> TRUE,
              swallowed |-> swallowed]
        ELSE [fs |-> WriteRaster(f, output_path,
                                 ReclassOutput(src, rules, acc.reclassified), io),
              cause |-> "", wrote |-> TRUE, swallowed |-> swallowed]

\* The environment is consulted for the write only when the call reaches it,
\* and for the unlink only when the handler finds a file at output_path.
ReclassifyCall(input_path, output_path, rules) ==
    LET reach == ReclassifyResult(fs, input_path, output_path, rules, "ok", TRUE)
    IN  \E io \in IF reach.wrote THEN WriteOutcomes ELSE {"ok"} :
          \E unlink_ok \in
                IF (~reach.wrote \/ io # "ok")
                   /\ (Exists(fs, output_path) \/ io = "write_fails")
                THEN BOOLEAN ELSE {TRUE} :
            LET args == [input_path |-> input_path, output_path |-> output_path,
                         classification_rules |-> rules]
                res == IF io = "ok" /\ unlink_ok THEN reach
                       ELSE ReclassifyResult(fs, input_path, output_path, rules,
                                             io, unlink_ok)
                info == [swallowed |-> res.swallowed, io |-> io,
                         unlink_ok |-> unlink_ok]
            IN  /\ UNCHANGED objects
                /\ fs' = res.fs
                /\ call' = IF res.cause = ""
                           THEN Returned("reclassify_raster", args, fs, info)
                           ELSE Raised("reclassify_raster", args, fs,
                                       "GISProcessingError", res.cause, info)

(***************************************************************************)
(* Inputs of the reclassification.                                         *)
(***************************************************************************)
PixelValues == 0..MaxVal

Grids == [1..NPix -> PixelValues]

Nodatas == {{}, {0}}

ReclassSources ==
    {Raster("EPSG:4326", NPix, 1, "uint8", nd, UnitTransform, <<g>>) :
        nd \in Nodatas, g \in Grids}

Classes == {PyInt(0, 1), PyInt(0, 2), PyInt(0, OUTPUT_NODATA), PyInt(1, 0)}

TableRows ==
    {Row(TRUE, lo, hi, c) : lo \in PixelValues, hi \in PixelValues, c \in Classes}
    \cup {Row(FALSE, 0, 0, PyInt(0, 1))}

Tables == UNION {[1..n -> TableRows] : n \in 0..MaxRules}

InitReclass ==
    /\ fs \in {[a |-> r, b |-> NoFile, out |-> o] :
                 r \in ReclassSources \cup {NoFile, OtherFile},
                 o \in {NoFile, OtherFile}}
    /\ call = Idle
    /\ objects = <<>>

ReclassifyRaster ==
    /\ call.status = "idle"
    /\ \E input_path \in {"a"}, output_path \in {"a", "out"}, rows \in Tables :
          ReclassifyCall(input_path, output_path, get_reclass_rules(rows))

NextReclass == ReclassifyRaster

SpecReclass == InitReclass /\ [][NextReclass]_vars

(***************************************************************************)
(* Properties of reclassify_raster.                                        *)
(***************************************************************************)
IsReclassify == call.status # "idle" /\ call.op = "reclassify_raster"

ReclassSucceeded == IsReclassify /\ call.status = "returned"

\* The rules (by position) whose closed interval holds value v.
Matching(rules, v) ==
    {i \in 1..Len(rules) : rules[i].min_val <= v /\ v <= rules[i].max_val}

MaxOf(S) == CHOOSE x \in S : \A y \in S : y <= x

\* C1: after a successful reclassify_raster every output pixel is the class
\* of the last rule (in iteration order) whose closed interval holds the
\* input pixel, when the pixel differs from the source nodata; it is -9999
\* when the pixel equals the source nodata or no interval holds it.
C1_LastMatchingRuleWins ==
    ReclassSucceeded =>
        LET src == call.pre[call.args.input_path]
            rules == call.args.classification_rules
            out == fs[call.args.output_path]
        IN  /\ IsRaster(out)
            /\ \A p \in 1..Len(src.data[1]) :
                 LET v == src.data[1][p]
                     m == Matching(rules, v)
                 IN  IF v \in src.nodata \/ m = {}
                     THEN out.data[1][p] = -9999
                     ELSE /\ rules[MaxOf(m)].new_val.hi = 0
                          /\ out.data[1][p] = rules[MaxOf(m)].new_val.lo

\* The same, for the rule sets all of whose classes fit int32.
C1_LastMatchingRuleWins_Int32 ==
    (ReclassSucceeded
       /\ \A i \in 1..Len(call.args.classification_rules) :
             call.args.classification_rules[i].new_val.hi = 0)
    => C1_LastMatchingRuleWins

\* Two closed intervals share a value.
Overlap(r1, r2) ==
    /\ r1.min_val <= r1.max_val
    /\ r2.min_val <= r2.max_val
    /\ r1.min_val <= r2.max_val
    /\ r2.min_val <= r1.max_val

NonOverlapping(rules) ==
    \A i, j \in 1..Len(rules) : i # j => ~Overlap(rules[i], rules[j])

Permuted(rules) ==
    {[i \in 1..Len(rules) |-> rules[pi[i]]] : pi \in Permutations(1..Len(rules))}

\* C2: when the intervals of the rule set are pairwise non-overlapping, the
\* call made with the rules in any other order ends the same way and leaves
\* the same files.
C2_OrderIndependent ==
    (IsReclassify /\ NonOverlapping(call.args.classification_rules)) =>
        \A perm \in Permuted(call.args.classification_rules) :
            LET res == ReclassifyResult(call.pre, call.args.input_path,
                                        call.args.output_path, perm,
                                        call.info.io, call.info.unlink_ok)
            IN  /\ res.fs = fs
                /\ (res.cause = "") = (call.status = "returned")

\* A successful call with two non-overlapping rules that both classify pixels
\* to different classes.
C2_Witness ==
    /\ ReclassSucceeded
    /\ LET rules == call.args.classification_rules
           src == call.pre[call.args.input_path]
       IN  /\ Len(rules) = 2
           /\ NonOverlapping(rules)
           /\ rules[1].new_val # rules[2].new_val
           /\ \A i \in 1..2 :
                 \E p \in 1..Len(src.data[1]) :
                    /\ src.data[1][p] \notin src.nodata
                    /\ Matching(rules, src.data[1][p]) = {i}

\* The pixels of band 1 that differ from the source nodata and lie in the
\* closed interval of some rule.
PixelsInSomeInterval(src, rules) ==
    {p \in 1..Len(src.data[1]) :
        /\ src.data[1][p] \notin src.nodata
        /\ Matching(rules, src.data[1][p]) # {}}

\* C12: reclassify_raster returns True only if some pixel of the band that
\* differs from the source nodata lies in the closed interval of a rule;
\* when none does, the call on a readable raster with rules fails on the
\* check of the number of pixels classified.
C12_NoPixelClassifiedFails ==
    IsReclassify =>
        LET src == call.pre[call.args.input_path]
            rules == call.args.classification_rules
        IN  /\ call.status = "returned" =>
                  IsRaster(src) /\ PixelsInSomeInterval(src, rules) # {}
            /\ (IsRaster(src) /\ rules # <<>>
                   /\ PixelsInSomeInterval(src, rules) = {})
               => (call.status = "raised" /\ call.cause = "ValueError")

\* A failed call whose only pixels inside an interval are source nodata.
C12_Witness ==
    /\ IsReclassify
    /\ call.status = "raised"
    /\ IsRaster(call.pre[call.args.input_path])
    /\ LET src == call.pre[call.args.input_path]
           rules == call.args.classification_rules
       IN  /\ rules # <<>>
           /\ PixelsInSomeInterval(src, rules) = {}
           /\ \E p \in 1..Len(src.data[1]) :
                 /\ src.data[1][p] \in src.nodata
                 /\ Matching(rules, src.data[1][p]) # {}
           /\ \E p \in 1..Len(src.data[1]) : src.data[1][p] \notin src.nodata

\* C13: in the output of a successful reclassify_raster no rule has the
\* sentinel -9999 as its class, and a pixel holds -9999 only if it was
\* source nodata or in the interval of no rule.
C13_SentinelOnlyForUnclassified ==
    ReclassSucceeded =>
        LET src == call.pre[call.args.input_path]
            rules == call.args.classification_rules
            out == fs[call.args.output_path]
        IN  /\ \A i \in 1..Len(rules) : rules[i].new_val # PyInt(0, OUTPUT_NODATA)
            /\ \A p \in 1..Len(src.data[1]) :
                  out.data[1][p] = OUTPUT_NODATA =>
                     \/ src.data[1][p] \in src.nodata
                     \/ Matching(rules, src.data[1][p]) = {}

\* What does hold for C13: the same, for the rule sets whose classes all fit
\* int32 and differ from -9999.
C13_SentinelOnlyForUnclassified_OtherClasses ==
    (ReclassSucceeded
       /\ \A i \in 1..Len(call.args.classification_rules) :
             /\ FitsInt32(call.args.classification_rules[i].new_val)
             /\ call.args.classification_rules[i].new_val.lo # OUTPUT_NODATA)
    => C13_SentinelOnlyForUnclassified

\* The write failed after rasterio.open(output_path, 'w') created the file.
WriteFailedAfterCreate == IsReclassify /\ call.info.io = "write_fails"

FailedBeforeWriting ==
    /\ IsReclassify
    /\ call.status = "raised"
    /\ call.cause \in {"FileNotFoundError", "ValueError"}

\* C28: when reclassify_raster fails before writing, a file that was at
\* output_path before the call is still there, unchanged.
C28_EarlyFailureKeepsOutput ==
    (FailedBeforeWriting /\ Exists(call.pre, call.args.output_path))
    => fs[call.args.output_path] = call.pre[call.args.output_path]

\* What does hold for C28: the file is kept only when its removal fails.
C28_EarlyFailureRemovesOutput ==
    (FailedBeforeWriting /\ Exists(call.pre, call.args.output_path))
    => fs[call.args.output_path] =
          IF call.info.unlink_ok THEN NoFile
          ELSE call.pre[call.args.output_path]

(***************************************************************************)
(* RasterProcessor.clip_raster_with_raster                                 *)
(***************************************************************************)
\* ~boolean_mask: the positions where band 1 of the mask equals the mask's
\* nodata (none when the mask declares no nodata: mask_data != None is True
\* everywhere).
MaskedOut(mask_src) ==
    {p \in 1..Len(mask_src.data[1]) : mask_src.data[1][p] \in mask_src.nodata}

Shape(raster) == <<raster.height, raster.width>>

\* The exception raised inside the try ("" when none) up to the write.
\* Assigning None (no source nodata) into an integer array is a TypeError; a
\* mask of another shape is an IndexError.
ClipRasterCause(f, source_path, mask_path) ==
    IF ~IsRaster(f[source_path]) \/ ~IsRaster(f[mask_path]) THEN "RasterioIOError"
    ELSE IF f[source_path].crs # f[mask_path].crs THEN "ProjectionError"
    ELSE IF Shape(f[source_path]) # Shape(f[mask_path]) THEN "IndexError"
    ELSE IF f[source_path].nodata = {} THEN "TypeError"
    ELSE ""

\* src_data[i][~boolean_mask] = src.nodata for the bands in `bands'.
MaskBands(src, mask_src, bands) ==
    [b \in 1..src.count |->
        [p \in 1..Len(src.data[b]) |->
            IF b \in bands /\ p \in MaskedOut(mask_src)
            THEN CHOOSE v \in src.nodata : TRUE
            ELSE src.data[b][p]]]

ClipOutputFirstBandOnly(src, mask_src) ==
    [src EXCEPT !.data = MaskBands(src, mask_src, {1})]

\* The raster written: src.meta with every band masked.
ClipOutput(src, mask_src) ==
    [src EXCEPT !.data = MaskBands(src, mask_src, 1..src.count)]

\* Every exception is caught and raised again as a GISProcessingError.
ClipRasterKind(cause) == "GISProcessingError"

\* The whole call: nothing is cleaned up when the write fails.
ClipRasterResult(f, source_path, mask_path, output_path, io) ==
    LET cause == ClipRasterCause(f, source_path, mask_path)
    IN  IF cause # ""
        THEN [fs |-> f, cause |-> cause, wrote |-> FALSE]
        ELSE [fs |-> WriteRaster(f, output_path,
                                 ClipOutput(f[source_path], f[mask_path]), io),
              cause |-> IF io = "ok" THEN "" ELSE "RasterioIOError",
              wrote |-> TRUE]

ClipRasterCall(source_path, mask_path, output_path) ==
    LET reach == ClipRasterResult(fs, source_path, mask_path, output_path, "ok")
    IN  \E io \in IF reach.wrote THEN WriteOutcomes ELSE {"ok"} :
            LET args == [source_path |-> source_path, mask_path |-> mask_path,
                         output_path |-> output_path]
                res == ClipRasterResult(fs, source_path, mask_path, output_path, io)
                info == [io |-> io, swallowed |-> 0]
            IN  /\ UNCHANGED objects
                /\ fs' = res.fs
                /\ call' = IF res.cause = ""
                           THEN Returned("clip_raster_with_raster", args, fs, info)
                           ELSE Raised("clip_raster_with_raster", args, fs,
                                       ClipRasterKind(res.cause), res.cause, info)

(***************************************************************************)
(* Inputs of the clip: sources of one and two bands (the second band holds *)
(* each value of the first plus one), masks on the same grid and on a      *)
(* narrower one, each with any CRS.                                        *)
(***************************************************************************)
NextValue(grid) == [p \in DOMAIN grid |-> (grid[p] + 1) % (MaxVal + 1)]

ClipSources ==
    {Raster(crs, NPix, 1, "uint8", nd, UnitTransform, <<g>>) :
        crs \in {"EPSG:4326", "None"}, nd \in Nodatas, g \in Grids}
    \cup
    {Raster(crs, NPix, 1, "uint8", nd, UnitTransform, <<g, NextValue(g)>>) :
        crs \in {"EPSG:4326", "None"}, nd \in Nodatas, g \in Grids}

ClipMasks ==
    {Raster(crs, NPix, 1, "uint8", nd, UnitTransform, <<g>>) :
        crs \in CRSs \cup {"None"}, nd \in Nodatas, g \in Grids}
    \cup
    {Raster(crs, NPix - 1, 1, "uint8", nd, UnitTransform, <<g>>) :
        crs \in CRSs, nd \in Nodatas, g \in [1..(NPix - 1) -> PixelValues]}

InitClip ==
    /\ fs \in {[a |-> s, b |-> m, out |-> o] :
                 s \in ClipSources \cup {NoFile},
                 m \in ClipMasks \cup {NoFile},
                 o \in {NoFile, OtherFile}}
    /\ call = Idle
    /\ objects = <<>>

ClipRasterWithRaster ==
    /\ call.status = "idle"
    /\ \E source_path \in {"a"}, mask_path \in {"b"}, output_path \in Paths :
          ClipRasterCall(source_path, mask_path, output_path)

NextClip == ClipRasterWithRaster

SpecClip == InitClip /\ [][NextClip]_vars

(***************************************************************************)
(* Properties of clip_raster_with_raster.                                  *)
(***************************************************************************)
IsClipRaster == call.status # "idle" /\ call.op = "clip_raster_with_raster"

C4_MismatchIsProjectionError ==
    (IsClipRaster
       /\ IsRaster(call.pre[call.args.source_path])
       /\ IsRaster(call.pre[call.args.mask_path])
       /\ call.pre[call.args.source_path].crs # call.pre[call.args.mask_path].crs)
    => (call.status = "raised" /\ IsInstance(call.kind, "ProjectionError"))

\* What does hold for C4: the call fails and no raster is reprojected (the
\* files are left as they were); the ProjectionError is the cause only.
C4_MismatchFails ==
    (IsClipRaster
       /\ IsRaster(call.pre[call.args.source_path])
       /\ IsRaster(call.pre[call.args.mask_path])
       /\ call.pre[call.args.source_path].crs # call.pre[call.args.mask_path].crs)
    => (call.status = "raised" /\ call.cause = "ProjectionError" /\ fs = call.pre)

(***************************************************************************)
(* Vector files.                                                           *)
(*                                                                         *)
(* The ground is a row of cells 0..NPix; pixel column c of a raster lies   *)
(* on ground cell c, so that cell 0 is outside every raster.  A geometry   *)
(* is the set of coordinate cells it covers, in the frame of the CRS of    *)
(* its dataset: the coordinate of a ground cell is the cell itself in      *)
(* EPSG:4326 (and in a dataset without CRS) and the cell shifted by        *)
(* NPix + 1 in EPSG:3857, so that the two frames share no coordinate.      *)
(***************************************************************************)
Offset(crs) == IF crs = "EPSG:3857" THEN NPix + 1 ELSE 0

Feature(id, geom) == [id |-> id, geom |-> geom]

\* A vector file as gpd.read_file returns it: its CRS ("None" when it has
\* none) and its features in file order.
Vector(crs, features) == [kind |-> "vector", crs |-> crs, features |-> features]

IsVector(file) == file.kind = "vector"

\* The exception gdf.to_crs(crs) raises ("" when none): a frame without CRS
\* cannot be transformed, and the target must be a CRS that is known.
ToCrsCause(gdf, crs) ==
    IF gdf.crs = "None" THEN "ValueError"
    ELSE IF crs = "None" THEN "ValueError"
    ELSE IF crs \notin CRSs THEN "CRSError"
    ELSE ""

\* gdf.to_crs(crs): the coordinates of every geometry in the frame of crs.
ToCrs(gdf, crs) ==
    Vector(crs,
           [i \in 1..Len(gdf.features) |->
               Feature(gdf.features[i].id,
                       {c - Offset(gdf.crs) + Offset(crs) :
                            c \in gdf.features[i].geom})])

\* A dataset in the frame of crs whose features cover the ground cells of
\* `grounds', in that order; feature ids count on from `first'.
VectorOn(crs, grounds, first) ==
    Vector(crs,
           [i \in 1..Len(grounds) |->
               Feature(first + i - 1, {g + Offset(crs) : g \in grounds[i]})])

(***************************************************************************)
(* RasterProcessor.clip_raster_with_vector                                 *)
(***************************************************************************)
MinOf(S) == CHOOSE x \in S : \A y \in S : x <= y

\* The pixel columns of src covered by the geometries (coordinates in the
\* frame of the CRS of src).
CoveredColumns(src, gdf) ==
    {c \in 1..src.width :
        \E i \in 1..Len(gdf.features) : (c + Offset(src.crs)) \in gdf.features[i].geom}

\* The boundary as the mask sees it: reprojected when its CRS is not that of
\* the raster.
Boundary(src, gdf) == IF gdf.crs # src.crs THEN ToCrs(gdf, src.crs) ELSE gdf

\* The exception raised inside the try ("" when none) up to the write: the
\* read of the vector, the open of the raster, the reprojection of the
\* boundary, the mask of shapes that do not overlap the raster (an empty
\* list of shapes included).
ClipVectorCause(f, raster_path, vector_path) ==
    LET gdf == f[vector_path]
        src == f[raster_path]
    IN  IF ~IsVector(gdf) THEN "DataSourceError"
        ELSE IF ~IsRaster(src) THEN "RasterioIOError"
        ELSE IF gdf.crs # src.crs /\ ToCrsCause(gdf, src.crs) # ""
        THEN ToCrsCause(gdf, src.crs)
        ELSE IF CoveredColumns(src, Boundary(src, gdf)) = {} THEN "ValueError"
        ELSE ""

\* mask(src, geometries, crop=True, nodata=src.nodata) written with src.meta:
\* the window of columns from the first to the last one covered, the pixels
\* outside the geometries filled with the nodata value (0 when src declares
\* none), the origin of the transform moved to the window.
ClipVectorOutput(src, gdf) ==
    LET covered == CoveredColumns(src, Boundary(src, gdf))
        lo == MinOf(covered)
        hi == MaxOf(covered)
        width == hi - lo + 1
        fill == IF src.nodata = {} THEN 0 ELSE CHOOSE v \in src.nodata : TRUE
    IN  Raster(src.crs, width, src.height, src.dtype, src.nodata,
               Transform(src.transform.a, src.transform.e,
                         src.transform.c
                            + ((lo - 1) * src.transform.a.n) \div src.transform.a.d,
                         src.transform.f),
               [b \in 1..src.count |->
                   [p \in 1..(width * src.height) |->
                       LET r == (p - 1) \div width
                           c == lo + ((p - 1) % width)
                       IN  IF c \in covered
                           THEN src.data[b][r * src.width + c]
                           ELSE fill]])

ClipVectorResult(f, raster_path, vector_path, output_path, io) ==
    LET cause == ClipVectorCause(f, raster_path, vector_path)
    IN  IF cause # ""
        THEN [fs |-> f, cause |-> cause, wrote |-> FALSE]
        ELSE [fs |-> WriteRaster(f, output_path,
                                 ClipVectorOutput(f[raster_path], f[vector_path]),
                                 io),
              cause |-> IF io = "ok" THEN "" ELSE "RasterioIOError",
              wrote |-> TRUE]

ClipVectorCall(raster_path, vector_path, output_path) ==
    LET reach == ClipVectorResult(fs, raster_path, vector_path, output_path, "ok")
    IN  \E io \in IF reach.wrote THEN WriteOutcomes ELSE {"ok"} :
            LET args == [raster_path |-> raster_path, vector_path |-> vector_path,
                         output_path |-> output_path]
                res == ClipVectorResult(fs, raster_path, vector_path,
                                        output_path, io)
                info == [io |-> io, swallowed |-> 0]
            IN  /\ UNCHANGED objects
                /\ fs' = res.fs
                /\ call' = IF res.cause = ""
                           THEN Returned("clip_raster_with_vector", args, fs, info)
                           ELSE Raised("clip_raster_with_vector", args, fs,
                                       "GISProcessingError", res.cause, info)

(***************************************************************************)
(* Inputs of the clip by a boundary: rasters with and without CRS,         *)
(* boundaries of up to two features in either CRS and without one.         *)
(***************************************************************************)
Boundaries ==
    {VectorOn(crs, grounds, 1) :
        crs \in CRSs \cup {"None"},
        grounds \in UNION {[1..n -> (SUBSET (0..NPix)) \ {{}}] : n \in 0..2}}

BoundedRasters ==
    {Raster(crs, NPix, 1, "uint8", nd, UnitTransform, <<g>>) :
        crs \in {"EPSG:4326", "None"}, nd \in Nodatas, g \in Grids}

InitClipVector ==
    /\ fs \in {[a |-> r, b |-> v, out |-> o] :
                 r \in BoundedRasters \cup {NoFile},
                 v \in Boundaries \cup {NoFile, OtherFile},
                 o \in {NoFile, OtherFile}}
    /\ call = Idle
    /\ objects = <<>>

ClipRasterWithVector ==
    /\ call.status = "idle"
    /\ \E raster_path \in {"a"}, vector_path \in {"b"}, output_path \in {"out"} :
          ClipVectorCall(raster_path, vector_path, output_path)

SpecClipVector == InitClipVector /\ [][ClipRasterWithVector]_vars

(***************************************************************************)
(* Properties of clip_raster_with_vector.                                  *)
(***************************************************************************)
IsClipVector == call.status # "idle" /\ call.op = "clip_raster_with_vector"

\* The boundary and the raster were read, their CRS differ and the boundary
\* cannot be reprojected to the CRS of the raster.
CannotReprojectBoundary ==
    /\ IsVector(call.pre[call.args.vector_path])
    /\ IsRaster(call.pre[call.args.raster_path])
    /\ call.pre[call.args.vector_path].crs # call.pre[call.args.raster_path].crs
    /\ ToCrsCause(call.pre[call.args.vector_path],
                  call.pre[call.args.raster_path].crs) # ""

\* C15: a failed clip_raster_with_vector raises a ProjectionError exactly
\* when the boundary cannot be reprojected to the CRS of the raster, and a
\* GISProcessingError that is no ProjectionError for every other failure.
C15_ProjectionErrorIffCannotReproject ==
    (IsClipVector /\ call.status = "raised") =>
        /\ IsInstance(call.kind, "GISProcessingError")
        /\ IsInstance(call.kind, "ProjectionError") <=> CannotReprojectBoundary

\* What does hold for C15: every failure, the impossible reprojection
\* included, is raised as a GISProcessingError that is no ProjectionError.
C15_NeverProjectionError ==
    (IsClipVector /\ call.status = "raised") =>
        /\ IsInstance(call.kind, "GISProcessingError")
        /\ ~IsInstance(call.kind, "ProjectionError")
        /\ CannotReprojectBoundary => call.cause = "ValueError"

(***************************************************************************)
(* VectorProcessor (src/vector_processor.py)                               *)
(***************************************************************************)
SecondOperandAsRead(gdf, other_gdf) == other_gdf

\* if gdf.crs != other_gdf.crs: other_gdf = other_gdf.to_crs(gdf.crs)
SecondOperand(gdf, other_gdf) ==
    IF gdf.crs # other_gdf.crs THEN ToCrs(other_gdf, gdf.crs) ELSE other_gdf

\* The coordinate cells covered by some feature of gdf.
Covered(gdf) == UNION {gdf.features[i].geom : i \in 1..Len(gdf.features)}

HasGeometry(feature) == feature.geom # {}

\* gdf.clip(clip_gdf): every feature cut to the cells the mask covers, the
\* features left with nothing dropped.
Clipped(gdf, clip_gdf) ==
    Vector(gdf.crs,
           SelectSeq([i \in 1..Len(gdf.features) |->
                         Feature(gdf.features[i].id,
                                 gdf.features[i].geom \cap Covered(clip_gdf))],
                     HasGeometry))

\* gpd.overlay(gdf, erase_gdf, how='difference')
Difference(gdf, erase_gdf) ==
    Vector(gdf.crs,
           SelectSeq([i \in 1..Len(gdf.features) |->
                         Feature(gdf.features[i].id,
                                 gdf.features[i].geom \ Covered(erase_gdf))],
                     HasGeometry))

\* gpd.overlay(gdf1, gdf2, how='intersection'): one feature for each pair of
\* features that share cells, in the order of the pairs.
Intersection(gdf1, gdf2) ==
    LET n2 == Len(gdf2.features)
        pairs == [k \in 1..(Len(gdf1.features) * n2) |->
                     LET f1 == gdf1.features[((k - 1) \div n2) + 1]
                         f2 == gdf2.features[((k - 1) % n2) + 1]
                     IN  Feature(<<f1.id, f2.id>>, f1.geom \cap f2.geom)]
    IN  Vector(gdf1.crs, SelectSeq(pairs, HasGeometry))

\* gpd.overlay(gdf1, gdf2, how='symmetric_difference'): what is left of the
\* features of gdf1 outside gdf2, then of those of gdf2 outside gdf1.
SymmetricDifference(gdf1, gdf2) ==
    Vector(gdf1.crs,
           Difference(gdf1, gdf2).features \o Difference(gdf2, gdf1).features)

\* The geometric operation of each of the four binary operations.
Overlay(op, gdf1, gdf2) ==
    IF op = "clip_vector" THEN Clipped(gdf1, gdf2)
    ELSE IF op = "erase_vector" THEN Difference(gdf1, gdf2)
    ELSE IF op = "intersection_vectors" THEN Intersection(gdf1, gdf2)
    ELSE SymmetricDifference(gdf1, gdf2)

\* The exception raised inside the try ("" when none) up to the write: the
\* two reads and the reprojection of the second operand.
BinaryCause(f, first_path, second_path) ==
    IF ~IsVector(f[first_path]) \/ ~IsVector(f[second_path]) THEN "DataSourceError"
    ELSE IF f[first_path].crs # f[second_path].crs
    THEN ToCrsCause(f[second_path], f[first_path].crs)
    ELSE ""

\* to_file under the environment's outcome io (a frame without features is
\* written or refused as the writer decides: one of the outcomes).
WriteVector(f, output_path, gdf, io) ==
    IF io = "open_fails" THEN f
    ELSE IF io = "write_fails" THEN [f EXCEPT ![output_path] = PartialFile]
    ELSE [f EXCEPT ![output_path] = gdf]

\* The whole call of a binary operation: read both, reproject the second,
\* operate, write; every exception is raised again as GISProcessingError.
BinaryResult(f, op, first_path, second_path, output_path, io) ==
    LET cause == BinaryCause(f, first_path, second_path)
    IN  IF cause # ""
        THEN [fs |-> f, cause |-> cause, wrote |-> FALSE]
        ELSE [fs |-> WriteVector(f, output_path,
                                 Overlay(op, f[first_path],
                                         SecondOperand(f[first_path],
                                                       f[second_path])),
                                 io),
              cause |-> IF io = "ok" THEN "" ELSE "DataSourceError",
              wrote |-> TRUE]

BinaryCall(op, args, first_path, second_path) ==
    LET reach == BinaryResult(fs, op, first_path, second_path,
                              args.output_path, "ok")
    IN  \E io \in IF reach.wrote THEN WriteOutcomes ELSE {"ok"} :
            LET res == BinaryResult(fs, op, first_path, second_path,
                                    args.output_path, io)
                info == [io |-> io, swallowed |-> 0]
            IN  /\ UNCHANGED objects
                /\ fs' = res.fs
                /\ call' = IF res.cause = ""
                           THEN Returned(op, args, fs, info)
                           ELSE Raised(op, args, fs, "GISProcessingError",
                                       res.cause, info)

\* VectorProcessor.reproject_vector
ReprojectVectorResult(f, input_path, output_path, target_crs, io) ==
    LET cause == IF ~IsVector(f[input_path]) THEN "DataSourceError"
                 ELSE ToCrsCause(f[input_path], target_crs)
    IN  IF cause # ""
        THEN [fs |-> f, cause |-> cause, wrote |-> FALSE]
        ELSE [fs |-> WriteVector(f, output_path,
                                 ToCrs(f[input_path], target_crs), io),
              cause |-> IF io = "ok" THEN "" ELSE "DataSourceError",
              wrote |-> TRUE]

ReprojectVectorCall(input_path, output_path, target_crs) ==
    LET reach == ReprojectVectorResult(fs, input_path, output_path, target_crs, "ok")
    IN  \E io \in IF reach.wrote THEN WriteOutcomes ELSE {"ok"} :
            LET args == [input_path |-> input_path, output_path |-> output_path,
                         target_crs |-> target_crs]
                res == ReprojectVectorResult(fs, input_path, output_path,
                                             target_crs, io)
                info == [io |-> io, swallowed |-> 0]
            IN  /\ UNCHANGED objects
                /\ fs' = res.fs
                /\ call' = IF res.cause = ""
                           THEN Returned("reproject_vector", args, fs, info)
                           ELSE Raised("reproject_vector", args, fs,
                                       "GISProcessingError", res.cause, info)

\* The loop of union_vectors over input_paths: the frames read so far, the
\* target CRS (the CRS of the first frame that has one) and the exception
\* that stopped the loop ("" when none).  A frame is reprojected when its
\* CRS is not the target's.
RECURSIVE LoadAll(_, _, _, _)
LoadAll(f, input_paths, target_crs, gdfs) ==
    IF input_paths = <<>>
    THEN [cause |-> "", target_crs |-> target_crs, gdfs |-> gdfs]
    ELSE LET gdf == f[Head(input_paths)]
         IN  IF ~IsVector(gdf)
             THEN [cause |-> "DataSourceError", target_crs |-> target_crs,
                   gdfs |-> gdfs]
             ELSE IF target_crs = "None"
             THEN LoadAll(f, Tail(input_paths), gdf.crs, Append(gdfs, gdf))
             ELSE IF gdf.crs # target_crs
             THEN IF ToCrsCause(gdf, target_crs) # ""
                  THEN [cause |-> ToCrsCause(gdf, target_crs),
                        target_crs |-> target_crs, gdfs |-> gdfs]
                  ELSE LoadAll(f, Tail(input_paths), target_crs,
                               Append(gdfs, ToCrs(gdf, target_crs)))
             ELSE LoadAll(f, Tail(input_paths), target_crs, Append(gdfs, gdf))

\* The features of the frames one after the other.
RECURSIVE Concat(_)
Concat(gdfs) ==
    IF gdfs = <<>> THEN <<>> ELSE Head(gdfs).features \o Concat(Tail(gdfs))

RECURSIVE WithoutDuplicates(_)
WithoutDuplicates(features) ==
    IF features = <<>> THEN <<>>
    ELSE LET rest == WithoutDuplicates(SubSeq(features, 1, Len(features) - 1))
             last == features[Len(features)]
         IN  IF \E i \in 1..Len(rest) : rest[i] = last
             THEN rest ELSE Append(rest, last)

UnionOutputDeduplicated(gdfs, target_crs) ==
    Vector(target_crs, WithoutDuplicates(Concat(gdfs)))

\* gpd.GeoDataFrame(pd.concat(gdfs, ignore_index=True)) with the target CRS.
UnionOutput(gdfs, target_crs) == Vector(target_crs, Concat(gdfs))

\* The whole call of union_vectors; pd.concat of no frame is a ValueError.
UnionResult(f, input_paths, output_path, io) ==
    LET loaded == LoadAll(f, input_paths, "None", <<>>)
        cause == IF loaded.cause # "" THEN loaded.cause
                 ELSE IF loaded.gdfs = <<>> THEN "ValueError"
                 ELSE ""
    IN  IF cause # ""
        THEN [fs |-> f, cause |-> cause, wrote |-> FALSE]
        ELSE [fs |-> WriteVector(f, output_path,
                                 UnionOutput(loaded.gdfs, loaded.target_crs), io),
              cause |-> IF io = "ok" THEN "" ELSE "DataSourceError",
              wrote |-> TRUE]

UnionCall(input_paths, output_path) ==
    LET reach == UnionResult(fs, input_paths, output_path, "ok")
    IN  \E io \in IF reach.wrote THEN WriteOutcomes ELSE {"ok"} :
            LET args == [input_paths |-> input_paths, output_path |-> output_path]
                res == UnionResult(fs, input_paths, output_path, io)
                info == [io |-> io, swallowed |-> 0]
            IN  /\ UNCHANGED objects
                /\ fs' = res.fs
                /\ call' = IF res.cause = ""
                           THEN Returned("union_vectors", args, fs, info)
                           ELSE Raised("union_vectors", args, fs,
                                       "GISProcessingError", res.cause, info)

(***************************************************************************)
(* Inputs of the vector operations: datasets of up to two features on the  *)
(* cells of the ground, in either CRS and without one.                     *)
(***************************************************************************)
VectorSources ==
    {VectorOn(crs, grounds, 1) :
        crs \in CRSs \cup {"None"},
        grounds \in UNION {[1..n -> (SUBSET (1..NPix)) \ {{}}] : n \in 0..2}}

InitVector ==
    /\ fs \in {[a |-> v, b |-> w, out |-> o] :
                 v \in VectorSources \cup {NoFile},
                 w \in VectorSources \cup {NoFile},
                 o \in {NoFile, OtherFile}}
    /\ call = Idle
    /\ objects = <<>>

ClipVector ==
    /\ call.status = "idle"
    /\ \E input_path \in {"a"}, clip_path \in {"b"}, output_path \in {"out"} :
          BinaryCall("clip_vector",
                     [input_path |-> input_path, clip_path |-> clip_path,
                      output_path |-> output_path],
                     input_path, clip_path)

EraseVector ==
    /\ call.status = "idle"
    /\ \E input_path \in {"a"}, erase_path \in {"b"}, output_path \in {"out"} :
          BinaryCall("erase_vector",
                     [input_path |-> input_path, erase_path |-> erase_path,
                      output_path |-> output_path],
                     input_path, erase_path)

IntersectionVectors ==
    /\ call.status = "idle"
    /\ \E input1_path \in {"a"}, input2_path \in {"b"}, output_path \in {"out"} :
          BinaryCall("intersection_vectors",
                     [input1_path |-> input1_path, input2_path |-> input2_path,
                      output_path |-> output_path],
                     input1_path, input2_path)

SymmetricDifferenceVectors ==
    /\ call.status = "idle"
    /\ \E input1_path \in {"a"}, input2_path \in {"b"}, output_path \in {"out"} :
          BinaryCall("symmetric_difference_vectors",
                     [input1_path |-> input1_path, input2_path |-> input2_path,
                      output_path |-> output_path],
                     input1_path, input2_path)

ReprojectVector ==
    /\ call.status = "idle"
    /\ \E input_path \in {"a"}, output_path \in {"out"}, target_crs \in TargetCRSs :
          ReprojectVectorCall(input_path, output_path, target_crs)

UnionVectors ==
    /\ call.status = "idle"
    /\ \E input_paths \in UNION {[1..n -> {"a", "b"}] : n \in 0..2},
          output_path \in {"out"} :
          UnionCall(input_paths, output_path)

NextVector ==
    \/ ClipVector
    \/ EraseVector
    \/ IntersectionVectors
    \/ SymmetricDifferenceVectors
    \/ ReprojectVector
    \/ UnionVectors

SpecVector == InitVector /\ [][NextVector]_vars

(***************************************************************************)
(* Properties of the vector operations.                                    *)
(***************************************************************************)
IsBinary ==
    /\ call.status # "idle"
    /\ call.op \in {"clip_vector", "erase_vector", "intersection_vectors",
                    "symmetric_difference_vectors"}

FirstPath ==
    IF call.op \in {"clip_vector", "erase_vector"}
    THEN call.args.input_path ELSE call.args.input1_path

SecondPath ==
    IF call.op = "clip_vector" THEN call.args.clip_path
    ELSE IF call.op = "erase_vector" THEN call.args.erase_path
    ELSE call.args.input2_path

\* The ground cells a dataset covers, whatever its CRS.
GroundOf(gdf) == {c - Offset(gdf.crs) : c \in Covered(gdf)}

\* The ground each operation is to leave, from the grounds of its operands.
ExpectedGround(op, ground1, ground2) ==
    IF op \in {"clip_vector", "intersection_vectors"} THEN ground1 \cap ground2
    ELSE IF op = "erase_vector" THEN ground1 \ ground2
    ELSE (ground1 \ ground2) \cup (ground2 \ ground1)

\* Both operands were read and their CRS differ.
OperandsDifferInCRS ==
    /\ IsBinary
    /\ IsVector(call.pre[FirstPath])
    /\ IsVector(call.pre[SecondPath])
    /\ call.pre[FirstPath].crs # call.pre[SecondPath].crs

\* C16: a binary vector operation on operands of different CRS either fails
\* (the second operand cannot be reprojected, or the write fails) or writes
\* the result of the operation on the first operand as read and the second
\* operand reprojected to the CRS of the first: the output is in the CRS of
\* the first operand and covers the ground the operation is to leave.
C16_SecondOperandReprojected ==
    (OperandsDifferInCRS /\ call.status = "returned") =>
        LET first == call.pre[FirstPath]
            second == call.pre[SecondPath]
            out == fs[call.args.output_path]
        IN  /\ IsVector(out)
            /\ out.crs = first.crs
            /\ out = Overlay(call.op, first, ToCrs(second, first.crs))
            /\ GroundOf(out)
                 = ExpectedGround(call.op, GroundOf(first), GroundOf(second))

\* A successful intersection of operands of different CRS that share ground.
C16_Witness ==
    /\ OperandsDifferInCRS
    /\ call.status = "returned"
    /\ call.op = "intersection_vectors"
    /\ Len(fs[call.args.output_path].features) >= 1
    /\ call.pre[FirstPath].crs = "EPSG:3857"

IsUnion == call.status # "idle" /\ call.op = "union_vectors"

\* The ids of the features of the files of input_paths, file after file.
RECURSIVE InputIds(_, _)
InputIds(f, input_paths) ==
    IF input_paths = <<>> THEN <<>>
    ELSE [i \in 1..Len(f[Head(input_paths)].features) |->
             f[Head(input_paths)].features[i].id]
         \o InputIds(f, Tail(input_paths))

\* C17: the output of a successful union_vectors holds the features of its
\* inputs one after the other, in input order: as many features as the
\* inputs have together, none merged, dropped or deduplicated.
C17_UnionConcatenates ==
    (IsUnion /\ call.status = "returned") =>
        LET out == fs[call.args.output_path]
            ids == InputIds(call.pre, call.args.input_paths)
        IN  /\ IsVector(out)
            /\ Len(out.features) = Len(ids)
            /\ \A i \in 1..Len(ids) : out.features[i].id = ids[i]

\* A successful union of two inputs whose output holds the same feature
\* twice.
C17_Witness ==
    /\ IsUnion
    /\ call.status = "returned"
    /\ Len(call.args.input_paths) = 2
    /\ LET out == fs[call.args.output_path]
       IN  \E i, j \in 1..Len(out.features) :
              i < j /\ out.features[i] = out.features[j]

(***************************************************************************)
(* The resampling kernels.                                                 *)
(***************************************************************************)
\* The keys of resampling_map in reproject_raster.
Kernels == {"nearest", "bilinear", "cubic", "average", "mode"}

\* The members of rasterio's Resampling enumeration, which getattr finds.
ResamplingMembers ==
    Kernels \cup {"cubic_spline", "lanczos", "gauss", "max", "min", "med",
                  "q1", "q3", "sum", "rms"}

\* The kernel names the calls of the model are made with.
MethodNames == Kernels \cup {"lanczos", "bogus"}

\* The grid of new_height rows and new_width columns read from band b of src:
\* each pixel holds the nearest source sample.
Resampled(src, b, new_width, new_height) ==
    [p \in 1..(new_width * new_height) |->
        LET r == (p - 1) \div new_width
            c == (p - 1) % new_width
            sr == (r * src.height) \div new_height
            sc == (c * src.width) \div new_width
        IN  src.data[b][sr * src.width + sc + 1]]

(***************************************************************************)
(* RasterProcessor.resample_raster                                         *)
(***************************************************************************)
\* round(n / d), halves rounded up.
RoundInt(n, d) == (2 * n + d) \div (2 * d)

\* int(n / d): the fraction is cut off, towards zero.
TruncInt(n, d) == IF n >= 0 THEN n \div d ELSE -((-n) \div d)

NewSizeRounded(size, scale_factor) ==
    RoundInt(size * scale_factor.n, scale_factor.d)

NewSizeAtLeastOne(size, scale_factor) ==
    IF TruncInt(size * scale_factor.n, scale_factor.d) < 1
    THEN 1
    ELSE TruncInt(size * scale_factor.n, scale_factor.d)

\* int(src.width * scale_factor), int(src.height * scale_factor)
NewSize(size, scale_factor) == TruncInt(size * scale_factor.n, scale_factor.d)

ScaledTransformInverted(src, new_width, new_height) ==
    Transform(RatMul(src.transform.a, Rat(new_width, src.width)),
              RatMul(src.transform.e, Rat(new_height, src.height)),
              src.transform.c, src.transform.f)

\* src.transform * scale(src.width / new_width, src.height / new_height)
ScaledTransform(src, new_width, new_height) ==
    Transform(RatMul(src.transform.a, Rat(src.width, new_width)),
              RatMul(src.transform.e, Rat(src.height, new_height)),
              src.transform.c, src.transform.f)

\* The exception raised before the write ("" when none): the division by a
\* new size of 0, the lookup of the kernel, the read into a negative shape.
ResampleCause(f, input_path, scale_factor, resampling_method) ==
    IF ~IsRaster(f[input_path]) THEN "RasterioIOError"
    ELSE LET new_width == NewSize(f[input_path].width, scale_factor)
             new_height == NewSize(f[input_path].height, scale_factor)
         IN  IF new_width = 0 \/ new_height = 0 THEN "ZeroDivisionError"
             ELSE IF resampling_method \notin ResamplingMembers THEN "AttributeError"
             ELSE IF new_width < 0 \/ new_height < 0 THEN "ValueError"
             ELSE ""

ResampleOutput(src, scale_factor) ==
    LET new_width == NewSize(src.width, scale_factor)
        new_height == NewSize(src.height, scale_factor)
    IN  Raster(src.crs, new_width, new_height, src.dtype, src.nodata,
               ScaledTransform(src, new_width, new_height),
               [b \in 1..src.count |-> Resampled(src, b, new_width, new_height)])

ResampleResult(f, input_path, output_path, scale_factor, resampling_method, io) ==
    LET cause == ResampleCause(f, input_path, scale_factor, resampling_method)
    IN  IF cause # ""
        THEN [fs |-> f, cause |-> cause, wrote |-> FALSE]
        ELSE [fs |-> WriteRaster(f, output_path,
                                 ResampleOutput(f[input_path], scale_factor), io),
              cause |-> IF io = "ok" THEN "" ELSE "RasterioIOError",
              wrote |-> TRUE]

ResampleCall(input_path, output_path, scale_factor, resampling_method) ==
    LET reach == ResampleResult(fs, input_path, output_path, scale_factor,
                                resampling_method, "ok")
    IN  \E io \in IF reach.wrote THEN WriteOutcomes ELSE {"ok"} :
            LET args == [input_path |-> input_path, output_path |-> output_path,
                         scale_factor |-> scale_factor,
                         resampling_method |-> resampling_method]
                res == ResampleResult(fs, input_path, output_path, scale_factor,
                                      resampling_method, io)
                info == [io |-> io, swallowed |-> 0]
            IN  /\ UNCHANGED objects
                /\ fs' = res.fs
                /\ call' = IF res.cause = ""
                           THEN Returned("resample_raster", args, fs, info)
                           ELSE Raised("resample_raster", args, fs,
                                       "GISProcessingError", res.cause, info)

(***************************************************************************)
(* Inputs of the resampling: rasters of every size up to MaxDim, with      *)
(* square and with oblong pixels; scale factors n/d, negative and zero     *)
(* included.                                                               *)
(***************************************************************************)
IndexGrid(width, height) == [p \in 1..(width * height) |-> (p - 1) % (MaxVal + 1)]

OblongTransform == Transform(Rat(2, 1), Rat(-1, 2), 3, 5)

SizedRasters ==
    {Raster("EPSG:4326", w, h, "uint8", {0}, t, <<IndexGrid(w, h)>>) :
        w \in 1..MaxDim, h \in 1..MaxDim, t \in {UnitTransform, OblongTransform}}

ScaleFactors == {Rat(n, d) : n \in (-1)..MaxScaleNum, d \in 1..MaxScaleDen}

InitResample ==
    /\ fs \in {[a |-> r, b |-> NoFile, out |-> o] :
                 r \in SizedRasters \cup {NoFile},
                 o \in {NoFile, OtherFile}}
    /\ call = Idle
    /\ objects = <<>>

ResampleRaster ==
    /\ call.status = "idle"
    /\ \E input_path \in {"a"}, output_path \in {"a", "out"},
          scale_factor \in ScaleFactors, resampling_method \in MethodNames :
          ResampleCall(input_path, output_path, scale_factor, resampling_method)

NextResample == ResampleRaster

SpecResample == InitResample /\ [][NextResample]_vars

(***************************************************************************)
(* Properties of resample_raster.                                          *)
(***************************************************************************)
IsResample == call.status # "idle" /\ call.op = "resample_raster"

ResampleSucceeded == IsResample /\ call.status = "returned"

Abs(x) == IF x < 0 THEN -x ELSE x

\* k is an integer nearest to size * n / d.
IsNearest(k, size, sf) == 2 * Abs(size * sf.n - k * sf.d) <= sf.d

\* k is size * n / d with its fraction cut off (for a product >= 0).
IsTruncated(k, size, sf) ==
    k * sf.d <= size * sf.n /\ size * sf.n < (k + 1) * sf.d

\* C7 as stated: the output width and height of a successful resample_raster
\* are the integers nearest to width * scale_factor and height * scale_factor.
C7_SizeIsRounded ==
    ResampleSucceeded =>
        LET src == call.pre[call.args.input_path]
            out == fs[call.args.output_path]
        IN  /\ IsNearest(out.width, src.width, call.args.scale_factor)
            /\ IsNearest(out.height, src.height, call.args.scale_factor)

\* C7 as amended: the output width and height of a successful
\* resample_raster are width * scale_factor and height * scale_factor with
\* the fraction cut off, each axis on its own.
C7_SizeIsTruncated ==
    ResampleSucceeded =>
        LET src == call.pre[call.args.input_path]
            out == fs[call.args.output_path]
        IN  /\ IsRaster(out)
            /\ IsTruncated(out.width, src.width, call.args.scale_factor)
            /\ IsTruncated(out.height, src.height, call.args.scale_factor)

\* A successful resampling in which the width is cut down to an integer that
\* is not the nearest one, and the height is an exact product.
C7_Witness ==
    /\ ResampleSucceeded
    /\ LET src == call.pre[call.args.input_path]
           out == fs[call.args.output_path]
           sf == call.args.scale_factor
       IN  /\ ~IsNearest(out.width, src.width, sf)
           /\ out.height * sf.d = src.height * sf.n
           /\ out.width # out.height

\* C8: after a successful resample_raster the output covers the extent of the
\* source: pixel size times pixel count is the same on each axis and the
\* origin of the transform is unchanged.
C8_ExtentPreserved ==
    ResampleSucceeded =>
        LET src == call.pre[call.args.input_path]
            out == fs[call.args.output_path]
        IN  /\ RatEq(RatMul(out.transform.a, Rat(out.width, 1)),
                     RatMul(src.transform.a, Rat(src.width, 1)))
            /\ RatEq(RatMul(out.transform.e, Rat(out.height, 1)),
                     RatMul(src.transform.e, Rat(src.height, 1)))
            /\ out.transform.c = src.transform.c
            /\ out.transform.f = src.transform.f

\* A successful resampling of a raster with oblong pixels whose width changes
\* by a ratio other than the scale factor.
C8_Witness ==
    /\ ResampleSucceeded
    /\ LET src == call.pre[call.args.input_path]
           out == fs[call.args.output_path]
           sf == call.args.scale_factor
       IN  /\ src.transform = OblongTransform
           /\ out.width # src.width
           /\ out.width * sf.d # src.width * sf.n

\* The calls C9 is about: a readable raster, one of the five kernels, and a
\* write that the environment lets through.
ResampleCanWork ==
    /\ IsResample
    /\ IsRaster(call.pre[call.args.input_path])
    /\ call.args.resampling_method \in Kernels
    /\ call.info.io = "ok"

FailedWithoutOutput == call.status = "raised" /\ fs = call.pre

SucceededWithPixels ==
    /\ call.status = "returned"
    /\ fs[call.args.output_path].width >= 1
    /\ fs[call.args.output_path].height >= 1

\* C9 as stated: resample_raster fails, writing nothing, exactly when the
\* scale factor is not strictly positive; with a strictly positive one it
\* succeeds and the output has at least one row and one column.
C9_FailsIffNotPositive ==
    ResampleCanWork =>
        IF call.args.scale_factor.n <= 0
        THEN FailedWithoutOutput
        ELSE SucceededWithPixels

\* C9 as amended: resample_raster fails, writing nothing, exactly when
\* width * scale_factor < 1 or height * scale_factor < 1, which is so for
\* every scale factor that is not strictly positive; otherwise it succeeds
\* and the output has at least one row and one column.
C9_FailsIffSizeBelowOne ==
    ResampleCanWork =>
        LET src == call.pre[call.args.input_path]
            sf == call.args.scale_factor
        IN  /\ (sf.n <= 0 => FailedWithoutOutput)
            /\ IF src.width * sf.n < sf.d \/ src.height * sf.n < sf.d
               THEN FailedWithoutOutput
               ELSE SucceededWithPixels

\* Both sides of C9 as amended: a failure with a strictly positive scale
\* factor too small for the raster.
C9_Witness ==
    /\ ResampleCanWork
    /\ call.args.scale_factor.n > 0
    /\ call.status = "raised"
    /\ call.cause = "ZeroDivisionError"
    /\ call.pre[call.args.input_path].width > 1

(***************************************************************************)
(* RasterProcessor.reproject_raster                                        *)
(***************************************************************************)
\* rasterio's calculate_default_transform(src.crs, target_crs, src.width,
\* src.height, *src.bounds), a function of these arguments alone.  The
\* library's grid is stood in for by: the source grid for the same CRS, and
\* for another CRS one more column and pixels of twice (to EPSG:3857) or half
\* (from it) the size.
CalculateDefaultTransform(src, target_crs) ==
    IF src.crs = target_crs
    THEN [transform |-> src.transform, width |-> src.width, height |-> src.height]
    ELSE LET k == IF target_crs = "EPSG:3857" THEN Rat(2, 1) ELSE Rat(1, 2)
         IN  [transform |-> Transform(RatMul(src.transform.a, k),
                                      RatMul(src.transform.e, k),
                                      src.transform.c, src.transform.f),
              width |-> src.width + 1, height |-> src.height]

\* The exception raised before the output is opened ("" when none).
ReprojectCause(f, input_path, target_crs) ==
    IF ~IsRaster(f[input_path]) THEN "RasterioIOError"
    ELSE IF f[input_path].crs \notin CRSs \/ target_crs \notin CRSs THEN "CRSError"
    ELSE ""

ReprojectOutputKernelGrid(src, target_crs, resampling_method) ==
    LET grid == CalculateDefaultTransform(src, target_crs)
        width == IF resampling_method \in {"average", "mode"}
                 THEN grid.width + 1 ELSE grid.width
    IN  Raster(target_crs, width, grid.height, src.dtype, src.nodata,
               grid.transform,
               [b \in 1..src.count |-> Resampled(src, b, width, grid.height)])

\* The raster written: src.meta with the target CRS and the default grid,
\* every band warped with the kernel.
ReprojectOutput(src, target_crs, resampling_method) ==
    LET grid == CalculateDefaultTransform(src, target_crs)
    IN  Raster(target_crs, grid.width, grid.height, src.dtype, src.nodata,
               grid.transform,
               [b \in 1..src.count |-> Resampled(src, b, grid.width, grid.height)])

\* The whole call.  The kernel is looked up in resampling_map inside the loop
\* over the bands, after the output has been created: an unknown name leaves
\* the created file behind.
ReprojectResult(f, input_path, output_path, target_crs, resampling_method, io) ==
    LET cause == ReprojectCause(f, input_path, target_crs)
    IN  IF cause # ""
        THEN [fs |-> f, cause |-> cause, wrote |-> FALSE]
        ELSE IF io = "open_fails"
        THEN [fs |-> f, cause |-> "RasterioIOError", wrote |-> TRUE]
        ELSE IF resampling_method \notin Kernels
        THEN [fs |-> [f EXCEPT ![output_path] = PartialFile],
              cause |-> "KeyError", wrote |-> TRUE]
        ELSE [fs |-> WriteRaster(f, output_path,
                                 ReprojectOutput(f[input_path], target_crs,
                                                 resampling_method), io),
              cause |-> IF io = "ok" THEN "" ELSE "RasterioIOError",
              wrote |-> TRUE]

ReprojectCall(input_path, output_path, target_crs, resampling_method) ==
    LET reach == ReprojectResult(fs, input_path, output_path, target_crs,
                                 resampling_method, "ok")
    IN  \E io \in IF reach.wrote THEN WriteOutcomes ELSE {"ok"} :
            LET args == [input_path |-> input_path, output_path |-> output_path,
                         target_crs |-> target_crs,
                         resampling_method |-> resampling_method]
                res == ReprojectResult(fs, input_path, output_path, target_crs,
                                       resampling_method, io)
                info == [io |-> io, swallowed |-> 0]
            IN  /\ UNCHANGED objects
                /\ fs' = res.fs
                /\ call' = IF res.cause = ""
                           THEN Returned("reproject_raster", args, fs, info)
                           ELSE Raised("reproject_raster", args, fs,
                                       "GISProcessingError", res.cause, info)

(***************************************************************************)
(* Inputs of the reprojection: the sized rasters in either CRS and without *)
(* one; a target CRS that is known or not.                                 *)
(***************************************************************************)
ReprojectSources ==
    {[r EXCEPT !.crs = crs] : r \in SizedRasters, crs \in CRSs \cup {"None"}}

InitReproject ==
    /\ fs \in {[a |-> r, b |-> NoFile, out |-> o] :
                 r \in ReprojectSources \cup {NoFile},
                 o \in {NoFile, OtherFile}}
    /\ call = Idle
    /\ objects = <<>>

ReprojectRaster ==
    /\ call.status = "idle"
    /\ \E input_path \in {"a"}, output_path \in {"b", "out"},
          target_crs \in TargetCRSs, resampling_method \in MethodNames :
          ReprojectCall(input_path, output_path, target_crs, resampling_method)

NextReproject == ReprojectRaster

SpecReproject == InitReproject /\ [][NextReproject]_vars

(***************************************************************************)
(* Properties of reproject_raster.                                         *)
(***************************************************************************)
IsReproject == call.status # "idle" /\ call.op = "reproject_raster"

ReprojectSucceeded == IsReproject /\ call.status = "returned"

SameGrid(r1, r2) ==
    /\ r1.width = r2.width
    /\ r1.height = r2.height
    /\ r1.transform = r2.transform
    /\ r1.crs = r2.crs

\* C10: the call made with any other of the five kernels on the same source
\* and target CRS succeeds too, and writes an output of the same width,
\* height, transform and so extent.
C10_KernelLeavesGridAlone ==
    ReprojectSucceeded =>
        \A kernel \in Kernels :
            LET other == ReprojectResult(call.pre, call.args.input_path,
                                         call.args.output_path,
                                         call.args.target_crs, kernel,
                                         call.info.io)
            IN  /\ other.cause = ""
                /\ SameGrid(other.fs[call.args.output_path],
                            fs[call.args.output_path])

\* A successful reprojection to another CRS with a kernel that interpolates.
C10_Witness ==
    /\ ReprojectSucceeded
    /\ call.args.resampling_method = "average"
    /\ call.pre[call.args.input_path].crs # call.args.target_crs
    /\ fs[call.args.output_path].width # call.pre[call.args.input_path].width

(***************************************************************************)
(* File names.  A path is the sequence of its characters.                  *)
(***************************************************************************)
LowerCase ==
    <<"a", "b", "c", "d", "e", "f", "g", "h", "i", "j", "k", "l", "m">> \o
    <<"n", "o", "p", "q", "r", "s", "t", "u", "v", "w", "x", "y", "z">>

UpperCase ==
    <<"A", "B", "C", "D", "E", "F", "G", "H", "I", "J", "K", "L", "M">> \o
    <<"N", "O", "P", "Q", "R", "S", "T", "U", "V", "W", "X", "Y", "Z">>

LowerChar(c) ==
    IF \E i \in 1..Len(UpperCase) : UpperCase[i] = c
    THEN LowerCase[CHOOSE i \in 1..Len(UpperCase) : UpperCase[i] = c]
    ELSE c

AsWritten(s) == s

\* str.lower()
Lower(s) == [i \in 1..Len(s) |-> LowerChar(s[i])]

\* Path.suffix: the name (the final component of the path) from its last
\* dot on, when that dot is neither the first nor the last character of the
\* name; empty otherwise.
Suffix(file_path) ==
    LET slashes == {i \in 1..Len(file_path) : file_path[i] = "/"}
        name == IF slashes = {} THEN file_path
                ELSE SubSeq(file_path, MaxOf(slashes) + 1, Len(file_path))
        dots == {i \in 1..Len(name) : name[i] = "."}
    IN  IF dots = {} THEN <<>>
        ELSE IF MaxOf(dots) > 1 /\ MaxOf(dots) < Len(name)
        THEN SubSeq(name, MaxOf(dots), Len(name))
        ELSE <<>>

(***************************************************************************)
(* FileManager (src/file_manager.py)                                       *)
(***************************************************************************)
RASTER_EXTENSIONS ==
    {<<".", "t", "i", "f">>,
     <<".", "t", "i", "f", "f">>,
     <<".", "i", "m", "g">>,
     <<".", "j", "p", "g">>,
     <<".", "j", "p", "e", "g">>,
     <<".", "p", "n", "g">>,
     <<".", "b", "m", "p">>,
     <<".", "n", "c">>,
     <<".", "c", "d", "f">>,
     <<".", "n", "e", "t", "c", "d", "f">>}

VECTOR_EXTENSIONS ==
    {<<".", "s", "h", "p">>,
     <<".", "k", "m", "l">>,
     <<".", "g", "e", "o", "j", "s", "o", "n">>,
     <<".", "g", "p", "k", "g">>,
     <<".", "g", "m", "l">>,
     <<".", "j", "s", "o", "n">>,
     <<".", "k", "m", "z">>}

\* The call returned `value'.
ReturnedValue(op, args, pre, value) ==
    [status |-> "returned", op |-> op, args |-> args, value |-> value,
     pre |-> pre, info |-> [io |-> "ok", swallowed |-> 0]]

\* FileManager.detect_file_type: the type, or the class of the exception.
detect_file_type(file_path) ==
    LET suffix == Lower(Suffix(file_path))
    IN  IF suffix \in RASTER_EXTENSIONS THEN [value |-> "raster", kind |-> ""]
        ELSE IF suffix \in VECTOR_EXTENSIONS THEN [value |-> "vector", kind |-> ""]
        ELSE [value |-> "", kind |-> "DataFormatError"]

\* What is at a path besides a raster, a vector file or a file of another
\* kind: a directory, or a file the process may not read.
Directory == [kind |-> "dir"]
LockedFile == [kind |-> "locked"]

\* FileManager.validate_file_access: the class of the exception ("" when it
\* returns True).
validate_file_access(f, file_path) ==
    IF ~Exists(f, file_path) THEN "FileAccessError"
    ELSE IF f[file_path] = Directory THEN "FileAccessError"
    ELSE IF f[file_path] = LockedFile THEN "FileAccessError"
    ELSE ""

\* RasterDataset._load_metadata: every exception of the block is raised
\* again as a ValueError.
RasterDataset(f, file_path) ==
    IF IsRaster(f[file_path])
    THEN [kind |-> "", cause |-> "",
          value |-> [type |-> "RasterDataset", file_path |-> file_path,
                     crs |-> f[file_path].crs, width |-> f[file_path].width,
                     height |-> f[file_path].height,
                     band_count |-> f[file_path].count,
                     dtype |-> f[file_path].dtype]]
    ELSE [kind |-> "ValueError", cause |-> "RasterioIOError", value |-> ""]

\* VectorDataset._load_metadata: geom_type[0] of a file without features is
\* a KeyError; every exception of the block is raised again as a ValueError.
VectorDataset(f, file_path) ==
    IF ~IsVector(f[file_path])
    THEN [kind |-> "ValueError", cause |-> "DataSourceError", value |-> ""]
    ELSE IF f[file_path].features = <<>>
    THEN [kind |-> "ValueError", cause |-> "KeyError", value |-> ""]
    ELSE [kind |-> "", cause |-> "",
          value |-> [type |-> "VectorDataset", file_path |-> file_path,
                     crs |-> f[file_path].crs,
                     feature_count |-> Len(f[file_path].features)]]

\* FileManager.load_dataset: nothing is caught on the way.
load_dataset(f, file_path) ==
    IF validate_file_access(f, file_path) # ""
    THEN [kind |-> validate_file_access(f, file_path), cause |-> "", value |-> ""]
    ELSE IF detect_file_type(file_path).kind # ""
    THEN [kind |-> detect_file_type(file_path).kind, cause |-> "", value |-> ""]
    ELSE IF detect_file_type(file_path).value = "raster"
    THEN RasterDataset(f, file_path)
    ELSE VectorDataset(f, file_path)

(***************************************************************************)
(* FormatFactory and the format handlers (src/format_handlers.py)          *)
(***************************************************************************)
\* self.handlers, in registration order.
Handlers ==
    <<"GeoTiffHandler", "ShapefileHandler", "GeoJSONHandler", "KMZHandler",
      "NetCDFHandler">>

HandledExtensionsWithJsonTwice(handler) ==
    IF handler = "GeoTiffHandler" THEN {<<".", "t", "i", "f">>, <<".", "t", "i", "f", "f">>}
    ELSE IF handler = "ShapefileHandler" THEN {<<".", "s", "h", "p">>, <<".", "j", "s", "o", "n">>}
    ELSE IF handler = "GeoJSONHandler" THEN {<<".", "g", "e", "o", "j", "s", "o", "n">>,
                                             <<".", "j", "s", "o", "n">>}
    ELSE IF handler = "KMZHandler" THEN {<<".", "k", "m", "z">>}
    ELSE {<<".", "n", "c">>, <<".", "c", "d", "f">>,
          <<".", "n", "e", "t", "c", "d", "f">>}

\* The suffixes each handler's can_handle compares the lower-cased suffix to.
HandledExtensions(handler) ==
    IF handler = "GeoTiffHandler" THEN {<<".", "t", "i", "f">>, <<".", "t", "i", "f", "f">>}
    ELSE IF handler = "ShapefileHandler" THEN {<<".", "s", "h", "p">>}
    ELSE IF handler = "GeoJSONHandler" THEN {<<".", "g", "e", "o", "j", "s", "o", "n">>,
                                             <<".", "j", "s", "o", "n">>}
    ELSE IF handler = "KMZHandler" THEN {<<".", "k", "m", "z">>}
    ELSE {<<".", "n", "c">>, <<".", "c", "d", "f">>,
          <<".", "n", "e", "t", "c", "d", "f">>}

can_handle(handler, file_path) ==
    Lower(Suffix(file_path)) \in HandledExtensions(handler)

\* FormatFactory.get_handler over the list `handlers': the first handler
\* that can handle the path, or the class of the exception.
RECURSIVE get_handler(_, _)
get_handler(handlers, file_path) ==
    IF handlers = <<>> THEN [value |-> "", kind |-> "DataFormatError"]
    ELSE IF can_handle(Head(handlers), file_path)
    THEN [value |-> Head(handlers), kind |-> ""]
    ELSE get_handler(Tail(handlers), file_path)

(***************************************************************************)
(* Inputs of the file operations: one path, spelled in lower, upper and    *)
(* mixed case, with every suffix of the two sets and of the handlers, some *)
(* other suffixes and none; and what is at that path.                      *)
(***************************************************************************)
UpperChar(c) ==
    IF \E i \in 1..Len(LowerCase) : LowerCase[i] = c
    THEN UpperCase[CHOOSE i \in 1..Len(LowerCase) : LowerCase[i] = c]
    ELSE c

Upper(s) == [i \in 1..Len(s) |-> UpperChar(s[i])]

\* Every other letter in upper case.
Mixed(s) == [i \in 1..Len(s) |-> IF i % 2 = 0 THEN UpperChar(s[i]) ELSE s[i]]

OtherExtensions ==
    {<<".", "t", "x", "t">>, <<".", "t", "i">>, <<".", "s", "h", "x">>, <<".", "t", "i", "f", "~">>,
     <<".">>, <<"t", "i", "f">>, <<>>}

Stems ==
    {<<"a">>, <<>>, <<"a", ".", "s", "h", "p">>, <<"d", ".", "t", "i", "f", "/", "a">>}

FilePaths ==
    {stem \o spelled :
        stem \in Stems,
        spelled \in UNION {{ext, Upper(ext), Mixed(ext)} :
                              ext \in RASTER_EXTENSIONS \cup VECTOR_EXTENSIONS
                                      \cup OtherExtensions}}

FileContents ==
    {NoFile, Directory, LockedFile, OtherFile, PartialFile,
     Raster("EPSG:4326", NPix, 1, "uint8", {0}, UnitTransform,
            <<[p \in 1..NPix |-> 0]>>),
     Raster("None", NPix, 1, "uint8", {}, UnitTransform,
            <<[p \in 1..NPix |-> 0]>>)}
    \cup {VectorOn(crs, grounds, 1) :
            crs \in {"EPSG:4326", "None"},
            grounds \in {<<>>, <<{1}>>, <<{1}, {1}>>}}

InitFiles ==
    /\ fs \in {[p \in {file_path} |-> content] :
                 file_path \in FilePaths, content \in FileContents}
    /\ call = Idle
    /\ objects = <<>>

DetectFileType ==
    /\ call.status = "idle"
    /\ \E file_path \in DOMAIN fs :
          LET res == detect_file_type(file_path)
              args == [file_path |-> file_path]
          IN  /\ call' = IF res.kind = ""
                         THEN ReturnedValue("detect_file_type", args, fs, res.value)
                         ELSE Raised("detect_file_type", args, fs, res.kind, "",
                                     [io |-> "ok", swallowed |-> 0])
              /\ fs' = fs
              /\ UNCHANGED objects

LoadDataset ==
    /\ call.status = "idle"
    /\ \E file_path \in DOMAIN fs :
          LET res == load_dataset(fs, file_path)
              args == [file_path |-> file_path]
          IN  /\ call' = IF res.kind = ""
                         THEN ReturnedValue("load_dataset", args, fs, res.value)
                         ELSE Raised("load_dataset", args, fs, res.kind,
                                     res.cause, [io |-> "ok", swallowed |-> 0])
              /\ fs' = fs
              /\ UNCHANGED objects

GetHandler ==
    /\ call.status = "idle"
    /\ \E file_path \in DOMAIN fs :
          LET res == get_handler(Handlers, file_path)
              args == [file_path |-> file_path]
          IN  /\ call' = IF res.kind = ""
                         THEN ReturnedValue("get_handler", args, fs, res.value)
                         ELSE Raised("get_handler", args, fs, res.kind, "",
                                     [io |-> "ok", swallowed |-> 0])
              /\ fs' = fs
              /\ UNCHANGED objects

NextFiles ==
    \/ DetectFileType
    \/ LoadDataset
    \/ GetHandler

SpecFiles == InitFiles /\ [][NextFiles]_vars

(***************************************************************************)
(* Properties of the file operations.                                      *)
(***************************************************************************)
IsDetect == call.status # "idle" /\ call.op = "detect_file_type"

\* ext is the extension of the path, letter case apart: the name of the
\* path ends with a dot that is not its first character followed by the
\* characters of ext, none of them a dot, in any case.
HasExtension(file_path, ext) ==
    LET slashes == {i \in 1..Len(file_path) : file_path[i] = "/"}
        name == SubSeq(file_path,
                       IF slashes = {} THEN 1 ELSE MaxOf(slashes) + 1,
                       Len(file_path))
        k == Len(name) - Len(ext)
    IN  /\ Len(ext) >= 1
        /\ k >= 2
        /\ name[k] = "."
        /\ \A i \in 1..Len(ext) :
              /\ ext[i] # "."
              /\ name[k + i] \in {ext[i], UpperChar(ext[i])}

\* The same path spelled in another letter case.
Respelled(file_path) == {Lower(file_path), Upper(file_path), Mixed(file_path)}

\* C18: detect_file_type returns 'raster' exactly for the paths whose
\* extension, letter case apart, is in the raster set, 'vector' exactly for
\* those whose extension is in the vector set, and raises DataFormatError
\* for every other path, one without extension included; the two sets are
\* disjoint and the result is the same for the path in any letter case.
C18_TypeByLowerCasedExtension ==
    IsDetect =>
        LET file_path == call.args.file_path
            in_raster == \E e \in RASTER_EXTENSIONS : HasExtension(file_path, Tail(e))
            in_vector == \E e \in VECTOR_EXTENSIONS : HasExtension(file_path, Tail(e))
        IN  /\ RASTER_EXTENSIONS \cap VECTOR_EXTENSIONS = {}
            /\ in_raster <=> (call.status = "returned" /\ call.value = "raster")
            /\ in_vector <=> (call.status = "returned" /\ call.value = "vector")
            /\ (~in_raster /\ ~in_vector)
                  <=> (call.status = "raised" /\ call.kind = "DataFormatError")
            /\ \A other \in Respelled(file_path) :
                  detect_file_type(other)
                    = [value |-> IF call.status = "returned" THEN call.value ELSE "",
                       kind |-> IF call.status = "raised" THEN call.kind ELSE ""]

\* A path in a directory with a raster suffix, its own suffix a vector one
\* written with upper-case letters, found to be a vector.
C18_Witness ==
    /\ IsDetect
    /\ call.status = "returned"
    /\ call.value = "vector"
    /\ Lower(call.args.file_path) # call.args.file_path
    /\ \E i \in 1..Len(call.args.file_path) : call.args.file_path[i] = "/"

IsLoad == call.status # "idle" /\ call.op = "load_dataset"

\* The path passes the access validation and has a supported extension.
Loadable ==
    /\ IsLoad
    /\ validate_file_access(call.pre, call.args.file_path) = ""
    /\ detect_file_type(call.args.file_path).kind = ""

\* C19: a load_dataset that fails on a path that passes the access
\* validation and has a supported extension raises a DataFormatError that
\* carries the underlying cause.
C19_LoadFailureIsDataFormatError ==
    (Loadable /\ call.status = "raised") =>
        /\ IsInstance(call.kind, "DataFormatError")
        /\ call.cause # ""

\* What does hold for C19: such a failure carries its cause, and is raised
\* as a ValueError, which is no GISProcessingError.
C19_LoadFailureIsValueError ==
    (Loadable /\ call.status = "raised") =>
        /\ call.kind = "ValueError"
        /\ ~IsInstance(call.kind, "GISProcessingError")
        /\ call.cause # ""

IsGetHandler == call.status # "idle" /\ call.op = "get_handler"

\* The handlers of the list that can handle the path, by position.
Accepting(handlers, file_path) ==
    {i \in 1..Len(handlers) : can_handle(handlers[i], file_path)}

Reordered(handlers) ==
    {[i \in 1..Len(handlers) |-> handlers[pi[i]]] :
        pi \in Permutations(1..Len(handlers))}

\* C20: get_handler returns the first handler in registration order that
\* can handle the path and raises DataFormatError when none can; at most
\* one handler can handle a path, so that the handlers registered in any
\* other order give the same result.
C20_FirstAndOnlyHandler ==
    IsGetHandler =>
        LET file_path == call.args.file_path
            accepting == Accepting(Handlers, file_path)
        IN  /\ Cardinality(accepting) <= 1
            /\ IF accepting = {}
               THEN call.status = "raised" /\ call.kind = "DataFormatError"
               ELSE /\ call.status = "returned"
                    /\ call.value = Handlers[MinOf(accepting)]
            /\ \A handlers \in Reordered(Handlers) :
                  get_handler(handlers, file_path)
                    = get_handler(Handlers, file_path)

\* The third handler found for a path whose suffix is written in upper case.
C20_Witness ==
    /\ IsGetHandler
    /\ call.status = "returned"
    /\ call.value = "GeoJSONHandler"
    /\ Lower(call.args.file_path) # call.args.file_path
    /\ Lower(Suffix(call.args.file_path)) = <<".", "j", "s", "o", "n">>

(***************************************************************************)
(* Properties of the kernel names of resample_raster and reproject_raster. *)
(***************************************************************************)
\* The resample calls in which nothing but the kernel name can fail: the
\* call made with 'nearest' succeeds, and the output is not the input.
OnlyKernelCanFail ==
    /\ IsResample
    /\ call.info.io = "ok"
    /\ call.args.output_path # call.args.input_path
    /\ ResampleResult(call.pre, call.args.input_path, call.args.output_path,
                      call.args.scale_factor, "nearest", "ok").cause = ""

\* The reprojection of the same input to its own CRS with the same kernel.
ReprojectedWithSameKernel ==
    ReprojectResult(call.pre, call.args.input_path, call.args.output_path,
                    call.pre[call.args.input_path].crs,
                    call.args.resampling_method, "ok")

\* C11: resample_raster accepts a kernel name if and only if
\* reproject_raster accepts it, and every name outside {nearest, bilinear,
\* cubic, average, mode} makes both operations fail.
C11_SameKernelNames ==
    OnlyKernelCanFail =>
        /\ (call.status = "returned") <=> (ReprojectedWithSameKernel.cause = "")
        /\ call.args.resampling_method \notin Kernels =>
              /\ call.status = "raised"
              /\ ReprojectedWithSameKernel.cause # ""

\* What does hold for C11: each of the five names is accepted by both
\* operations, and a name that is no member of Resampling by neither.
C11_FiveKernelsAcceptedByBoth ==
    OnlyKernelCanFail =>
        /\ call.args.resampling_method \in Kernels =>
              /\ call.status = "returned"
              /\ ReprojectedWithSameKernel.cause = ""
        /\ call.args.resampling_method \notin ResamplingMembers =>
              /\ call.status = "raised"
              /\ ReprojectedWithSameKernel.cause # ""

(***************************************************************************)
(* The engine as a whole: any of the operations, called on a filesystem of *)
(* a few rasters with any of the paths as input and as output.             *)
(***************************************************************************)
EngineRasters ==
    {Raster(crs, NPix, 1, "uint8", {0}, UnitTransform, <<IndexGrid(NPix, 1)>>) :
        crs \in CRSs}

EngineRows ==
    {Row(TRUE, 0, MaxVal, PyInt(0, 1)), Row(TRUE, 1, MaxVal, PyInt(1, 0)),
     Row(TRUE, MaxVal + 1, MaxVal + 1, PyInt(0, 2))}

EngineTables == UNION {[1..n -> EngineRows] : n \in 0..MaxRules}

EngineScaleFactors == {Rat(0, 1), Rat(1, 2), Rat(2, 1)}

EngineMethods == {"nearest", "bogus"}

Init ==
    /\ fs \in {[a |-> r, b |-> m, out |-> o] :
                 r \in EngineRasters \cup {NoFile},
                 m \in EngineRasters \cup {NoFile},
                 o \in {NoFile, OtherFile}}
    /\ call = Idle
    /\ objects = <<>>

CallReclassifyRaster ==
    /\ call.status = "idle"
    /\ \E input_path \in {"a", "b"}, output_path \in Paths, rows \in EngineTables :
          ReclassifyCall(input_path, output_path, get_reclass_rules(rows))

CallClipRasterWithRaster ==
    /\ call.status = "idle"
    /\ \E source_path \in {"a", "b"}, mask_path \in {"a", "b"},
          output_path \in Paths :
          ClipRasterCall(source_path, mask_path, output_path)

CallResampleRaster ==
    /\ call.status = "idle"
    /\ \E input_path \in {"a", "b"}, output_path \in Paths,
          scale_factor \in EngineScaleFactors, resampling_method \in EngineMethods :
          ResampleCall(input_path, output_path, scale_factor, resampling_method)

\* The output is not the input here: reproject_raster creates the output
\* while the input is still to be read.
CallReprojectRaster ==
    /\ call.status = "idle"
    /\ \E input_path \in {"a", "b"}, output_path \in Paths,
          target_crs \in TargetCRSs, resampling_method \in EngineMethods :
          /\ output_path # input_path
          /\ ReprojectCall(input_path, output_path, target_crs, resampling_method)

Next ==
    \/ CallReclassifyRaster
    \/ CallClipRasterWithRaster
    \/ CallResampleRaster
    \/ CallReprojectRaster

Spec == Init /\ [][Next]_vars

(***************************************************************************)
(* Properties of every operation.                                          *)
(***************************************************************************)
Called == call.status # "idle"

\* The paths the call reads its inputs from.
InputPaths ==
    IF call.op = "clip_raster_with_raster"
    THEN {call.args.source_path, call.args.mask_path}
    ELSE {call.args.input_path}

\* C5: whatever the arguments and however the call ends, every input file of
\* the call is afterwards what it was before the call.
C5_InputsNeverChange ==
    Called => \A path \in InputPaths : fs[path] = call.pre[path]

\* What does hold for C5: the inputs are kept by every call whose output_path
\* names none of them.
C5_InputsKeptWhenOutputElsewhere ==
    (Called /\ call.args.output_path \notin InputPaths)
    => \A path \in InputPaths : fs[path] = call.pre[path]

\* C6: a call either returns True, and then no failure inside it was
\* swallowed, or raises a GISProcessingError that carries its cause.
C6_TrueOrRaisedNothingSwallowed ==
    Called =>
        \/ /\ call.status = "returned"
           /\ call.value = TRUE
           /\ call.info.swallowed = 0
        \/ /\ call.status = "raised"
           /\ IsInstance(call.kind, "GISProcessingError")
           /\ call.cause # ""

\* What does hold for C6: every call returns True or raises a
\* GISProcessingError that carries its cause.
C6_TrueOrRaised ==
    Called =>
        \/ call.status = "returned" /\ call.value = TRUE
        \/ /\ call.status = "raised"
           /\ IsInstance(call.kind, "GISProcessingError")
           /\ call.cause # ""

(***************************************************************************)
(* ProjectionInfo (src/data_models.py).  An Optional field is a sequence:  *)
(* <<>> is None and <<v>> holds the value v.  `objects' is the instance.   *)
(***************************************************************************)
None == <<>>

to_crs_proj4_first(self) ==
    IF self.proj4_string \notin {None, <<"">>} THEN self.proj4_string
    ELSE IF self.epsg_code \notin {None, <<0>>}
    THEN <<"EPSG:" \o ToString(self.epsg_code[1])>>
    ELSE IF self.wkt_string \notin {None, <<"">>} THEN self.wkt_string
    ELSE None

\* ProjectionInfo.to_crs: each field is tested for truth, so a code 0 and an
\* empty string count as missing; the authority field is not read.
to_crs(self) ==
    IF self.epsg_code \notin {None, <<0>>}
    THEN <<"EPSG:" \o ToString(self.epsg_code[1])>>
    ELSE IF self.proj4_string \notin {None, <<"">>} THEN self.proj4_string
    ELSE IF self.wkt_string \notin {None, <<"">>} THEN self.wkt_string
    ELSE None

InitProjection ==
    /\ fs = <<>>
    /\ call = Idle
    /\ objects \in [epsg_code : {None, <<0>>, <<4326>>, <<3857>>},
                    proj4_string : {None, <<"">>, <<"+proj=longlat">>, <<"+proj=merc">>},
                    wkt_string : {None, <<"">>, <<"GEOGCS">>, <<"PROJCS">>},
                    authority : {None, <<"ESRI">>}]

ProjectionInfoToCrs ==
    /\ call.status = "idle"
    /\ call' = ReturnedValue("to_crs", [self |-> objects], fs, to_crs(objects))
    /\ UNCHANGED <<fs, objects>>

SpecProjection == InitProjection /\ [][ProjectionInfoToCrs]_vars

(***************************************************************************)
(* Properties of ProjectionInfo.to_crs                                     *)
(***************************************************************************)
IsToCrs == call.status = "returned" /\ call.op = "to_crs"

CodePresent(self) == self.epsg_code # None /\ self.epsg_code[1] > 0

Populated(string) == string # None /\ Len(string[1]) > 0

\* The canonical identifier of an EPSG code.
CanonicalEPSG(code) ==
    IF code = 4326 THEN "EPSG:4326" ELSE IF code = 3857 THEN "EPSG:3857" ELSE ""

\* C21: to_crs is a function of the (code, proj-string, WKT) triple: with a
\* code present the result is "EPSG:<code>" whatever the other fields hold;
\* without a code it is the proj-string when that is present; without both
\* it is the WKT string when that is present.
C21_ToCrsByFirstPresentField ==
    IsToCrs =>
        LET self == call.args.self
        IN  /\ CodePresent(self)
                => call.value = <<CanonicalEPSG(self.epsg_code[1])>>
            /\ (~CodePresent(self) /\ Populated(self.proj4_string))
                => call.value = self.proj4_string
            /\ (~CodePresent(self) /\ ~Populated(self.proj4_string)
                  /\ Populated(self.wkt_string))
                => call.value = self.wkt_string

C21_Witness ==
    /\ IsToCrs
    /\ CodePresent(call.args.self)
    /\ Populated(call.args.self.proj4_string)
    /\ Populated(call.args.self.wkt_string)
    /\ call.args.self.authority # None
    /\ call.value = <<"EPSG:3857">>

NothingPopulated(self) ==
    ~CodePresent(self) /\ ~Populated(self.proj4_string)
    /\ ~Populated(self.wkt_string)

\* C22: with none of code, proj-string and WKT populated, to_crs raises
\* nothing and yields the string "unknown".
C22_UnknownWhenNothingPopulated ==
    (call.status # "idle" /\ NothingPopulated(call.args.self))
    => IsToCrs /\ call.value = <<"unknown">>

\* What does hold for C22: nothing is raised and the result is None.
C22_NoneWhenNothingPopulated ==
    (call.status # "idle" /\ NothingPopulated(call.args.self))
    => IsToCrs /\ call.value = None

(***************************************************************************)
(* DataValidator (src/validators.py)                                       *)
(***************************************************************************)
\* DataValidator.validate_crs_compatibility: the class of the exception and
\* of the one it was made from ("" when the call returns True).  read(path)
\* is src.crs or gdf.crs of the file opened as its suffix says, "" when it
\* cannot be opened that way; the CRS of a file without one is None, and
\* None != None is false.
validate_crs_compatibility(f, file1_path, file2_path) ==
    LET read(path) ==
            IF detect_file_type(path).value = "raster"
            THEN IF IsRaster(f[path]) THEN f[path].crs ELSE ""
            ELSE IF IsVector(f[path]) THEN f[path].crs ELSE ""
    IN  IF detect_file_type(file1_path).kind # ""
           \/ detect_file_type(file2_path).kind # ""
        THEN [kind |-> "ProjectionError", cause |-> "DataFormatError"]
        ELSE IF read(file1_path) = "" \/ read(file2_path) = ""
        THEN [kind |-> "ProjectionError", cause |-> "OpenError"]
        ELSE IF read(file1_path) # read(file2_path)
        THEN [kind |-> "ProjectionError", cause |-> "ProjectionError"]
        ELSE [kind |-> "", cause |-> ""]

\* Two paths with a raster, a vector or an unsupported suffix, and at each a
\* raster or a vector file in one of the two CRSs or without a CRS, a file
\* of another kind, or nothing.
InitCrsCheck ==
    /\ fs \in UNION {[{file1_path, file2_path} ->
                         {Raster(crs, NPix, 1, "uint8", {}, UnitTransform,
                                 <<[p \in 1..NPix |-> 0]>>) :
                             crs \in CRSs \cup {"None"}}
                         \cup {VectorOn(crs, <<{1}>>, 1) : crs \in CRSs \cup {"None"}}
                         \cup {NoFile, OtherFile}] :
                       file1_path \in {<<"a", ".", "t", "i", "f">>,
                                       <<"a", ".", "s", "h", "p">>,
                                       <<"a", ".", "t", "x", "t">>},
                       file2_path \in {<<"a", ".", "t", "i", "f">>,
                                       <<"b", ".", "T", "I", "F">>,
                                       <<"b", ".", "s", "h", "p">>,
                                       <<"b">>}}
    /\ call = Idle
    /\ objects = <<>>

ValidateCrsCompatibility ==
    /\ call.status = "idle"
    /\ \E file1_path \in DOMAIN fs, file2_path \in DOMAIN fs :
          LET res == validate_crs_compatibility(fs, file1_path, file2_path)
              args == [file1_path |-> file1_path, file2_path |-> file2_path]
          IN  /\ call' = IF res.kind = ""
                         THEN ReturnedValue("validate_crs_compatibility", args,
                                            fs, TRUE)
                         ELSE Raised("validate_crs_compatibility", args, fs,
                                     res.kind, res.cause,
                                     [io |-> "ok", swallowed |-> 0])
              /\ UNCHANGED <<fs, objects>>

SpecCrsCheck == InitCrsCheck /\ [][ValidateCrsCompatibility]_vars

(***************************************************************************)
(* Properties of validate_crs_compatibility                                *)
(***************************************************************************)
IsCrsCheck == call.status # "idle" /\ call.op = "validate_crs_compatibility"

\* The file at the path is a dataset that carries a CRS.
HasCRS(path) == fs[path].kind \in {"raster", "vector"} /\ fs[path].crs # "None"

\* C23: validate_crs_compatibility raises ProjectionError whenever one of
\* the two files, or both, have no CRS, and returns True only when both
\* carry a CRS and the two are equal.
C23_UndefinedCRSFails ==
    IsCrsCheck =>
        LET file1 == call.args.file1_path
            file2 == call.args.file2_path
        IN  /\ (~HasCRS(file1) \/ ~HasCRS(file2))
                => call.status = "raised" /\ call.kind = "ProjectionError"
            /\ call.status = "returned"
                => /\ HasCRS(file1) /\ HasCRS(file2)
                   /\ fs[file1].crs = fs[file2].crs

\* What does hold for C23: every failure is a ProjectionError, a call with
\* exactly one file without a CRS fails, and True means equal CRS values,
\* None included.
C23_UnequalCRSFails ==
    IsCrsCheck =>
        LET file1 == call.args.file1_path
            file2 == call.args.file2_path
        IN  /\ call.status = "raised" => call.kind = "ProjectionError"
            /\ (HasCRS(file1) # HasCRS(file2)) => call.status = "raised"
            /\ call.status = "returned" => fs[file1].crs = fs[file2].crs

\* DataValidator.validate_output_path for an output_path in the directory
\* "dir": the filesystem it leaves and the class of the exception ("" when
\* it returns True).  mkdir, touch and unlink are what the environment
\* answers to parent_dir.mkdir, test_file.touch and test_file.unlink: "ok"
\* or "PermissionError".  touch creates an empty file where there is none
\* and keeps the content of one that is there.
validate_output_path(f, output_path, overwrite, mkdir, touch, unlink) ==
    LET parent_dir == "dir"
        test_file == "dir/write_test.tmp"
        made == IF Exists(f, parent_dir) THEN f
                ELSE [f EXCEPT ![parent_dir] = Directory]
        touched == IF Exists(made, test_file) THEN made
                   ELSE [made EXCEPT ![test_file] = [kind |-> "empty"]]
    IN  IF ~Exists(f, parent_dir) /\ mkdir # "ok"
        THEN [fs |-> f, kind |-> "FileAccessError"]
        ELSE IF Exists(made, output_path) /\ ~overwrite
        THEN [fs |-> made, kind |-> "FileAccessError"]
        ELSE IF touch # "ok"
        THEN [fs |-> made, kind |-> "FileAccessError"]
        ELSE IF unlink # "ok"
        THEN [fs |-> touched, kind |-> "FileAccessError"]
        ELSE [fs |-> [touched EXCEPT ![test_file] = NoFile], kind |-> ""]

\* The directory is missing, and then so are its files, or it is there with
\* any of three files in it.
InitOutputPath ==
    /\ fs \in {f \in [{"dir", "dir/out.tif", "dir/write_test.tmp", "dir/other.shp"}
                        -> {NoFile, Directory, OtherFile, PartialFile}] :
                 /\ f["dir"] \in {NoFile, Directory}
                 /\ \A path \in DOMAIN f \ {"dir"} :
                       /\ f[path] # Directory
                       /\ f["dir"] = NoFile => f[path] = NoFile}
    /\ call = Idle
    /\ objects = <<>>

ValidateOutputPath ==
    /\ call.status = "idle"
    /\ \E output_path \in {"dir/out.tif", "dir/write_test.tmp"},
          overwrite \in BOOLEAN,
          mkdir \in {"ok", "PermissionError"},
          touch \in {"ok", "PermissionError"},
          unlink \in {"ok", "PermissionError"} :
          LET res == validate_output_path(fs, output_path, overwrite,
                                          mkdir, touch, unlink)
              args == [output_path |-> output_path, overwrite |-> overwrite]
              info == [mkdir |-> mkdir, touch |-> touch, unlink |-> unlink]
          IN  /\ fs' = res.fs
              /\ call' = IF res.kind = ""
                         THEN Returned("validate_output_path", args, fs, info)
                         ELSE Raised("validate_output_path", args, fs,
                                     res.kind, "", info)
              /\ UNCHANGED objects

SpecOutputPath == InitOutputPath /\ [][ValidateOutputPath]_vars

(***************************************************************************)
(* Properties of validate_output_path                                      *)
(***************************************************************************)
IsValidateOutputPath ==
    call.status # "idle" /\ call.op = "validate_output_path"

\* C30: after validate_output_path, whether it returned True or raised
\* FileAccessError, the directory holds the files it held before, each with
\* the content it had; only a missing directory may have been created.
C30_DirectoryKeepsItsFiles ==
    (IsValidateOutputPath
       /\ (call.status = "returned" \/ call.kind = "FileAccessError"))
    => \A path \in DOMAIN fs \ {"dir"} : fs[path] = call.pre[path]

\* What does hold for C30: every file but write_test.tmp is kept.
C30_OtherFilesKept ==
    IsValidateOutputPath
    => \A path \in DOMAIN fs \ {"dir", "dir/write_test.tmp"} :
          fs[path] = call.pre[path]

(***************************************************************************)
(* VectorDataset.read_data (src/data_models.py).  `objects' is the         *)
(* instance: its file_path, its gdf (None, or <<table>>), the number of    *)
(* read_data calls made on it and the number of times read_data read the   *)
(* table from the file.                                                    *)
(***************************************************************************)
MaxCalls == 3      \* read_data calls made on an instance

read_data_uncached(self, f) ==
    IF IsVector(f[self.file_path])
    THEN [gdf |-> <<f[self.file_path]>>, kind |-> "", reads |-> self.reads + 1]
    ELSE [gdf |-> self.gdf, kind |-> "DataSourceError", reads |-> self.reads]

\* VectorDataset.read_data on filesystem f: self.gdf after the call, the
\* class of the exception ("" when self.gdf is returned) and the reads made.
read_data(self, f) ==
    IF self.gdf # None
    THEN [gdf |-> self.gdf, kind |-> "", reads |-> self.reads]
    ELSE IF IsVector(f[self.file_path])
    THEN [gdf |-> <<f[self.file_path]>>, kind |-> "", reads |-> self.reads + 1]
    ELSE [gdf |-> self.gdf, kind |-> "DataSourceError", reads |-> self.reads]

\* An instance as __init__ leaves it, on a file _load_metadata accepts: a
\* vector file with a feature.
InitDataset ==
    /\ fs \in [{"a"} -> {VectorOn("EPSG:4326", grounds, 1) :
                            grounds \in {<<{1}>>, <<{2}>>, <<{1}, {2}>>}}]
    /\ call = Idle
    /\ objects = [file_path |-> "a", gdf |-> None, calls |-> 0, reads |-> 0]

ReadData ==
    /\ objects.calls < MaxCalls
    /\ LET res == read_data(objects, fs)
           args == [self |-> objects]
       IN  /\ objects' = [objects EXCEPT !.gdf = res.gdf, !.reads = res.reads,
                                         !.calls = @ + 1]
           /\ call' = IF res.kind = ""
                      THEN ReturnedValue("read_data", args, fs, res.gdf[1])
                      ELSE Raised("read_data", args, fs, res.kind, "",
                                  [io |-> "ok", swallowed |-> 0])
           /\ UNCHANGED fs

\* Another process rewrites, empties, replaces or removes the file.
FileChanges ==
    /\ objects.calls < MaxCalls
    /\ \E file \in {VectorOn("EPSG:4326", grounds, 1) :
                      grounds \in {<<>>, <<{1}>>, <<{2}>>, <<{1}, {2}>>}}
                   \cup {NoFile, OtherFile} :
          /\ file # fs[objects.file_path]
          /\ fs' = [fs EXCEPT ![objects.file_path] = file]
    /\ UNCHANGED <<call, objects>>

NextDataset ==
    \/ ReadData
    \/ FileChanges

SpecDataset == InitDataset /\ [][NextDataset]_vars

(***************************************************************************)
(* Properties of VectorDataset.read_data                                   *)
(***************************************************************************)
\* C26: once a read_data call has read the table, every later read_data
\* call on the instance returns that same table and does not read the file,
\* whatever has become of the file.
C26_OnlyFirstReadTouchesFile ==
    [][(objects.gdf # None /\ objects'.calls # objects.calls)
       => /\ call'.status = "returned"
          /\ call'.value = objects.gdf[1]
          /\ objects'.gdf = objects.gdf
          /\ objects'.reads = objects.reads]_vars

\* A later call that returned the cached table while the file held another.
C26_Witness ==
    /\ objects.calls >= 2
    /\ objects.reads = 1
    /\ call.status = "returned"
    /\ call.args.self.gdf = <<call.value>>
    /\ call.pre["a"] # call.value

(***************************************************************************)
(* MainWindow and ProcessingWorker (src/main_window.py).  `objects' is the *)
(* window: worker_thread and current_operation (0 is None, otherwise the   *)
(* number of the worker and of the request), the enabled flags of the two  *)
(* panels, the visibility of the progress bar, every worker created so far *)
(* and the signals queued for the GUI thread, in emission order.  A worker *)
(* holds the outcome of its operation ("" while it runs), the signals it   *)
(* emitted, whether its thread is running and how often                    *)
(* processing_finished ran for it.  The panels emit a request only while   *)
(* they are enabled.  Closing the window is not modelled.                  *)
(***************************************************************************)
MaxRequests == 3   \* processing requests made by the panels

isRunningNever(worker) == FALSE

\* QThread.isRunning
isRunning(worker) == worker.running

run_without_finished_on_error(outcome) ==
    IF outcome = "truthy" THEN <<[signal |-> "finished", success |-> TRUE]>>
    ELSE IF outcome = "falsy" THEN <<[signal |-> "finished", success |-> FALSE]>>
    ELSE <<[signal |-> "error", success |-> FALSE]>>

\* ProcessingWorker.run: the signals emitted, in order, when the operation
\* returned a true value, returned a false value, or raised an Exception.
run(outcome) ==
    IF outcome = "truthy" THEN <<[signal |-> "finished", success |-> TRUE]>>
    ELSE IF outcome = "falsy" THEN <<[signal |-> "finished", success |-> FALSE]>>
    ELSE <<[signal |-> "error", success |-> FALSE],
           [signal |-> "finished", success |-> FALSE]>>

InitWindow ==
    /\ fs = <<>>
    /\ call = Idle
    /\ objects = [worker_thread |-> 0, current_operation |-> 0,
                  raster_panel |-> TRUE, vector_panel |-> TRUE,
                  progress_bar |-> FALSE, workers |-> <<>>, events |-> <<>>,
                  requests |-> 0]

\* MainWindow.start_processing, requested by the vector panel.
StartProcessing ==
    /\ objects.requests < MaxRequests
    /\ objects.vector_panel
    /\ objects' =
          IF objects.worker_thread # 0
             /\ isRunning(objects.workers[objects.worker_thread])
          THEN [objects EXCEPT !.requests = @ + 1]
          ELSE [objects EXCEPT
                   !.requests = @ + 1,
                   !.current_operation = objects.requests + 1,
                   !.worker_thread = Len(objects.workers) + 1,
                   !.workers = Append(@, [outcome |-> "", emitted |-> <<>>,
                                          running |-> TRUE, handled |-> 0]),
                   !.progress_bar = TRUE,
                   !.raster_panel = FALSE,
                   !.vector_panel = FALSE]
    /\ UNCHANGED <<fs, call>>

\* MainWindow.start_processing_simple, requested by the raster panel:
\* current_operation is not assigned.
StartProcessingSimple ==
    /\ objects.requests < MaxRequests
    /\ objects.raster_panel
    /\ objects' =
          IF objects.worker_thread # 0
             /\ isRunning(objects.workers[objects.worker_thread])
          THEN [objects EXCEPT !.requests = @ + 1]
          ELSE [objects EXCEPT
                   !.requests = @ + 1,
                   !.worker_thread = Len(objects.workers) + 1,
                   !.workers = Append(@, [outcome |-> "", emitted |-> <<>>,
                                          running |-> TRUE, handled |-> 0]),
                   !.progress_bar = TRUE,
                   !.raster_panel = FALSE,
                   !.vector_panel = FALSE]
    /\ UNCHANGED <<fs, call>>

\* One step of a worker thread: the operation ends, or run emits its next
\* signal, which is queued for the GUI thread, or run has returned and the
\* thread finishes.
Run ==
    /\ \E w \in 1..Len(objects.workers) :
          LET worker == objects.workers[w]
          IN  /\ worker.running
              /\ IF worker.outcome = ""
                 THEN \E outcome \in {"truthy", "falsy", "raised"} :
                         objects' = [objects EXCEPT !.workers[w].outcome = outcome]
                 ELSE IF Len(worker.emitted) < Len(run(worker.outcome))
                 THEN LET emit == run(worker.outcome)[Len(worker.emitted) + 1]
                      IN  objects' =
                             [objects EXCEPT
                                 !.workers[w].emitted = Append(@, emit),
                                 !.events = Append(@, [signal |-> emit.signal,
                                                       success |-> emit.success,
                                                       worker |-> w])]
                 ELSE objects' = [objects EXCEPT !.workers[w].running = FALSE]
    /\ UNCHANGED <<fs, call>>

\* MainWindow.processing_error, run by the GUI thread for the oldest queued
\* signal.
ProcessingError ==
    /\ objects.events # <<>>
    /\ Head(objects.events).signal = "error"
    /\ objects' = [objects EXCEPT !.events = Tail(@),
                                  !.progress_bar = FALSE,
                                  !.raster_panel = TRUE,
                                  !.vector_panel = TRUE]
    /\ UNCHANGED <<fs, call>>

\* MainWindow.processing_finished, run by the GUI thread for the oldest
\* queued signal.
ProcessingFinished ==
    /\ objects.events # <<>>
    /\ Head(objects.events).signal = "finished"
    /\ objects' = [objects EXCEPT
                      !.events = Tail(@),
                      !.progress_bar = FALSE,
                      !.raster_panel = TRUE,
                      !.vector_panel = TRUE,
                      !.current_operation = 0,
                      !.workers[Head(objects.events).worker].handled = @ + 1]
    /\ UNCHANGED <<fs, call>>

NextWindow ==
    \/ StartProcessing
    \/ StartProcessingSimple
    \/ Run
    \/ ProcessingError
    \/ ProcessingFinished

SpecWindow == InitWindow /\ [][NextWindow]_vars

\* The thread a worker runs on is scheduled, its operation runs to
\* completion or raises, and the event loop of the GUI thread delivers the
\* queued signals.
SpecWindowFair ==
    /\ SpecWindow
    /\ WF_vars(Run)
    /\ WF_vars(ProcessingError)
    /\ WF_vars(ProcessingFinished)

(***************************************************************************)
(* Properties of the processing requests                                   *)
(***************************************************************************)
RunningWorkers(window) ==
    {w \in 1..Len(window.workers) : window.workers[w].running}

\* C24: at most one worker is running in every state, and a request made
\* while a worker is running starts no worker and leaves worker_thread and
\* current_operation as they are.
C24_RequestsSerialized ==
    /\ [](Cardinality(RunningWorkers(objects)) <= 1)
    /\ [][(objects'.requests # objects.requests /\ RunningWorkers(objects) # {})
          => /\ objects'.workers = objects.workers
             /\ objects'.worker_thread = objects.worker_thread
             /\ objects'.current_operation = objects.current_operation]_vars

\* A request was rejected and the worker it found running still runs.
C24_Witness ==
    /\ objects.requests > Len(objects.workers)
    /\ Len(objects.workers) = 1
    /\ RunningWorkers(objects) = {1}

Signals(worker) == [i \in 1..Len(worker.emitted) |-> worker.emitted[i].signal]

\* C27: a run whose operation ended emits finished exactly once, and error
\* at most once, only when the operation raised and then before
\* finished(False); processing_finished enables both panels and hides the
\* progress bar; and every accepted request is eventually followed by the
\* processing_finished of its worker.
C27_FinishedOnceThenHandled ==
    /\ [](\A w \in 1..Len(objects.workers) :
            LET worker == objects.workers[w]
            IN  /\ ~worker.running
                    => Signals(worker) \in {<<"finished">>, <<"error", "finished">>}
                /\ Signals(worker) # <<>>
                    => /\ worker.outcome # ""
                       /\ Signals(worker) \in {<<"finished">>, <<"error">>,
                                               <<"error", "finished">>}
                       /\ (Signals(worker)[1] = "error") = (worker.outcome = "raised")
                       /\ worker.emitted[Len(worker.emitted)].success
                             => worker.outcome = "truthy")
    /\ [][(\E w \in 1..Len(objects.workers) :
              objects'.workers[w].handled # objects.workers[w].handled)
          => /\ objects'.raster_panel /\ objects'.vector_panel
             /\ ~objects'.progress_bar]_vars
    /\ \A n \in 1..MaxRequests :
          (Len(objects.workers) >= n)
          ~> (Len(objects.workers) >= n /\ objects.workers[n].handled = 1)

\* A worker whose operation raised: error, then finished, both delivered.
C27_Witness ==
    /\ \E w \in 1..Len(objects.workers) :
          /\ objects.workers[w].outcome = "raised"
          /\ Signals(objects.workers[w]) = <<"error", "finished">>
          /\ objects.workers[w].handled = 1
          /\ objects.raster_panel /\ objects.vector_panel
          /\ ~objects.progress_bar

(***************************************************************************)
(* SimpleMapViewer (src/simple_map_viewer.py).  `objects' is the viewer:   *)
(* layers, a function from the layer names to the layer items,             *)
(* current_bounds (None, or <<bounds>>), the x limits of the axes and the  *)
(* number of add calls made.  The ground is a row, so bounds are           *)
(* <<minx, maxx>>, in the coordinates of the frame the layer is plotted    *)
(* in.  Every layer stays visible.                                         *)
(***************************************************************************)
MaxAdds == 3       \* add_raster_layer and add_vector_layer calls

\* The name the layer is stored under: the given name, or the stem of the
\* file name, with "_<number of layers>" appended when it is in use.
StoredName(layers, file_path, layer_name) ==
    LET slashes == {i \in 1..Len(file_path) : file_path[i] = "/"}
        name == IF slashes = {} THEN file_path
                ELSE SubSeq(file_path, MaxOf(slashes) + 1, Len(file_path))
        stem == SubSeq(name, 1, Len(name) - Len(Suffix(file_path)))
        given == IF layer_name = None THEN stem ELSE layer_name[1]
    IN  IF given \in DOMAIN layers
        THEN given \o <<"_">> \o <<ToString(Cardinality(DOMAIN layers))>>
        ELSE given

\* SimpleMapViewer.update_bounds
update_bounds(current_bounds, new_bounds) ==
    IF current_bounds = None THEN <<new_bounds>>
    ELSE <<<<IF new_bounds[1] < current_bounds[1][1]
             THEN new_bounds[1] ELSE current_bounds[1][1],
             IF new_bounds[2] > current_bounds[1][2]
             THEN new_bounds[2] ELSE current_bounds[1][2]>>>>

\* The end of an add call: with the bounds of the data read, <<bounds>>,
\* the layer is stored and True returned; with None, nothing was read or
\* nothing is to be shown, and False is returned.
AddLayer(op, file_path, layer_name, layer_type, read) ==
    LET name == StoredName(objects.layers, file_path, layer_name)
        layer_item == [name |-> name, file_path |-> file_path,
                       layer_type |-> layer_type, visible |-> TRUE,
                       bounds |-> read[1]]
        args == [file_path |-> file_path, layer_name |-> layer_name]
    IN  /\ objects' =
              IF read = None THEN [objects EXCEPT !.adds = @ + 1]
              ELSE [objects EXCEPT
                       !.layers = [n \in DOMAIN @ \cup {name} |->
                                      IF n = name THEN layer_item ELSE @[n]],
                       !.current_bounds = update_bounds(@, read[1]),
                       !.adds = @ + 1]
        /\ call' = ReturnedValue(op, args, fs, read # None)
        /\ UNCHANGED fs

\* Two raster files and a vector file whose stems are "a", "a_2" and "a".
InitViewer ==
    /\ fs \in {(<<"a", ".", "t", "i", "f">> :> first)
               @@ (<<"a", "_", "2", ".", "t", "i", "f">> :> second)
               @@ (<<"d", "/", "a", ".", "s", "h", "p">> :> third) :
                 first \in {Raster(crs, NPix, 1, "uint8", {}, UnitTransform,
                                   <<[p \in 1..NPix |-> 0]>>) : crs \in CRSs},
                 second \in {Raster("EPSG:4326", NPix, 1, "uint8", {},
                                    UnitTransform, <<[p \in 1..NPix |-> 0]>>),
                             OtherFile},
                 third \in {VectorOn("EPSG:4326", <<{1}, {2}>>, 1),
                            VectorOn("EPSG:3857", <<{1}, {2}>>, 1),
                            VectorOn("None", <<{2}>>, 1),
                            VectorOn("EPSG:4326", <<{}>>, 1),
                            VectorOn("EPSG:4326", <<>>, 1)}}
    /\ call = Idle
    /\ objects = [layers |-> <<>>, current_bounds |-> None,
                  xlim |-> <<Rat(-180, 1), Rat(180, 1)>>, adds |-> 0]

\* SimpleMapViewer.add_raster_layer: src.bounds are in the CRS of the file.
AddRasterLayer ==
    /\ objects.adds < MaxAdds
    /\ \E file_path \in DOMAIN fs, layer_name \in {None, <<<<"a">>>>} :
          AddLayer("add_raster_layer", file_path, layer_name, "raster",
                   IF IsRaster(fs[file_path])
                   THEN <<<<1 + Offset(fs[file_path].crs),
                            fs[file_path].width + Offset(fs[file_path].crs)>>>>
                   ELSE None)

\* SimpleMapViewer.add_vector_layer: the valid geometries, transformed to
\* EPSG:4326 when the file has another CRS, and their total_bounds.
AddVectorLayer ==
    /\ objects.adds < MaxAdds
    /\ \E file_path \in DOMAIN fs, layer_name \in {None, <<<<"a">>>>} :
          LET gdf == fs[file_path]
              valid == Vector(gdf.crs, SelectSeq(gdf.features, HasGeometry))
              shown == IF gdf.crs \notin {"None", "EPSG:4326"}
                       THEN ToCrs(valid, "EPSG:4326") ELSE valid
          IN  AddLayer("add_vector_layer", file_path, layer_name, "vector",
                       IF IsVector(gdf) /\ valid.features # <<>>
                       THEN <<<<MinOf(Covered(shown)), MaxOf(Covered(shown))>>>>
                       ELSE None)

\* SimpleMapViewer.zoom_to_extent: the limits are the union of the bounds of
\* the visible layers widened by 5% of its range, when that range is not 0.
ZoomToExtent ==
    LET bounds == {objects.layers[n].bounds :
                      n \in {m \in DOMAIN objects.layers : objects.layers[m].visible}}
        minx == MinOf({b[1] : b \in bounds})
        maxx == MaxOf({b[2] : b \in bounds})
    IN  /\ objects' =
              IF bounds # {} /\ maxx - minx > 0
              THEN [objects EXCEPT
                       !.xlim = <<Rat(20 * minx - (maxx - minx), 20),
                                  Rat(20 * maxx + (maxx - minx), 20)>>]
              ELSE objects
        /\ call' = ReturnedValue("zoom_to_extent", <<>>, fs,
                                 IF bounds = {} THEN "No visible layers to zoom to"
                                 ELSE IF maxx - minx > 0 THEN "Zoomed to extent"
                                 ELSE "Invalid data extent")
        /\ UNCHANGED fs

\* SimpleMapViewer.clear_all, with the limits clear_plot sets.
ClearAll ==
    /\ objects' = [objects EXCEPT !.layers = <<>>, !.current_bounds = None,
                                  !.xlim = <<Rat(-180, 1), Rat(180, 1)>>]
    /\ call' = ReturnedValue("clear_all", <<>>, fs, "Cleared all layers")
    /\ UNCHANGED fs

NextViewer ==
    \/ AddRasterLayer
    \/ AddVectorLayer
    \/ ZoomToExtent
    \/ ClearAll

SpecViewer == InitViewer /\ [][NextViewer]_vars

(***************************************************************************)
(* Properties of the map viewer                                            *)
(***************************************************************************)
\* The projection the bounds of a layer are expressed in: the CRS of the
\* file for a raster, EPSG:4326 for a vector file that has a CRS.
BoundsCRS(layer_item) ==
    IF layer_item.layer_type = "raster" THEN fs[layer_item.file_path].crs
    ELSE IF fs[layer_item.file_path].crs = "None" THEN "None"
    ELSE "EPSG:4326"

\* The projections of the bounds of the layers shown, the layers of
\* unknown projection left aside.
Projections ==
    {BoundsCRS(objects.layers[n]) : n \in DOMAIN objects.layers} \ {"None"}

\* C25: current_bounds, and the extent zoom_to_extent computes, unite only
\* bounds expressed in one and the same projection.
C25_ExtentInOneProjection ==
    /\ objects.current_bounds # None => Cardinality(Projections) <= 1
    /\ (call.status = "returned" /\ call.op = "zoom_to_extent"
          /\ call.value = "Zoomed to extent")
       => Cardinality(Projections) <= 1

\* What does hold for C25: current_bounds spans the bounds of every layer,
\* whatever projection they are in.
C25_ExtentSpansEveryLayer ==
    \A n \in DOMAIN objects.layers :
        /\ objects.current_bounds # None
        /\ objects.current_bounds[1][1] <= objects.layers[n].bounds[1]
        /\ objects.current_bounds[1][2] >= objects.layers[n].bounds[2]

\* C29: every add that returns True adds exactly one layer, under a name no
\* layer had, and leaves the layers that were there as they were.
C29_AddNeverReplaces ==
    [][(objects'.adds # objects.adds /\ call'.value = TRUE)
       => /\ Cardinality(DOMAIN objects'.layers)
               = Cardinality(DOMAIN objects.layers) + 1
          /\ \A n \in DOMAIN objects.layers :
                /\ n \in DOMAIN objects'.layers
                /\ objects'.layers[n] = objects.layers[n]]_vars

\* What does hold for C29: an add stores its layer under the name it chose
\* and leaves every layer of another name as it was.
C29_AddKeepsOtherNames ==
    [][(objects'.adds # objects.adds /\ call'.value = TRUE)
       => LET name == StoredName(objects.layers, call'.args.file_path,
                                 call'.args.layer_name)
          IN  /\ DOMAIN objects'.layers = DOMAIN objects.layers \cup {name}
              /\ \A n \in DOMAIN objects.layers \ {name} :
                    objects'.layers[n] = objects.layers[n]]_vars

====
